---- MODULE Spec2Model ----
(***************************************************************************)
(* TOPLUS editor: the fallback chains, the grammar correction service, the *)
(* diagnosis engine and the workflow engine of src/api/automation_bot.py   *)
(* and src/api/index.py.                                                   *)
(*                                                                         *)
(* A Python str is a sequence of tokens.  A token is one character ("a",   *)
(* "b", " ") or one literal the parsers search for, kept whole:            *)
(*   "S:" = 'SIMPLIFIED_TEXT:'   "I:" = 'IMPROVED_TEXT:'                   *)
(*   "F:" = 'FINAL_TEXT:'                                                  *)
(*   "{..}" tokens = one brace-delimited block matched by \{[^}]+\}        *)
(* Python's None is the one-token sequence None.                           *)
(***************************************************************************)
EXTENDS Integers, Sequences, FiniteSets, TLC

\* ---------------------------------------------------------------- bounds
MaxChainLen == 2
MaxGramLen == 4
MaxMatches == 2
MaxWfLen == 2
MaxDiagLen == 2
MaxProcLen == 2

\* ------------------------------------------------------- python helpers
None == <<"None">>

Min(a, b) == IF a < b THEN a ELSE b
Max(a, b) == IF a > b THEN a ELSE b

\* every sequence over alphabet A of length at most n
SeqsUpTo(A, n) == UNION {[1..k -> A] : k \in 0..n}

\* str.isspace() for one character
IsSpace(c) == c = " "

RECURSIVE LStrip(_)
LStrip(s) ==
    IF s # <<>> /\ IsSpace(Head(s)) THEN LStrip(Tail(s)) ELSE s

RECURSIVE RStrip(_)
RStrip(s) ==
    IF s # <<>> /\ IsSpace(s[Len(s)]) THEN RStrip(SubSeq(s, 1, Len(s) - 1)) ELSE s

\* str.strip()
Strip(s) == RStrip(LStrip(s))

\* bool(x) for x a str or None: `if result:`
Truthy(x) == x # None /\ x # <<>>

\* a slice bound as Python normalises it: negative counts from the end, then clamp
SliceIndex(i, n) == IF i < 0 THEN Max(i + n, 0) ELSE Min(i, n)

\* s[i:j]
Slice(s, i, j) == SubSeq(s, SliceIndex(i, Len(s)) + 1, SliceIndex(j, Len(s)))

\* s[i:]
SliceFrom(s, i) == SubSeq(s, SliceIndex(i, Len(s)) + 1, Len(s))

\* s[:j]
SliceTo(s, j) == SubSeq(s, 1, SliceIndex(j, Len(s)))

\* ------------------------------------------------- grammar correction
\* A LanguageTool match: offset and length against the original text; hasRepl is
\* match.get("replacements") being non-empty, repl is replacements[0]["value"].
Match(o, l, h, r) == [offset |-> o, length |-> l, hasRepl |-> h, repl |-> r]

\* list.insert keeping equal keys in arrival order (sorted() is stable)
RECURSIVE InsertByOffset(_, _)
InsertByOffset(m, s) ==
    IF s = <<>> THEN <<m>>
    ELSE IF s[Len(s)].offset <= m.offset THEN Append(s, m)
    ELSE Append(InsertByOffset(m, SubSeq(s, 1, Len(s) - 1)), s[Len(s)])

\* sorted(matches, key=lambda x: x["offset"])
RECURSIVE SortedByOffset(_)
SortedByOffset(ms) ==
    IF ms = <<>> THEN <<>>
    ELSE InsertByOffset(ms[Len(ms)], SortedByOffset(SubSeq(ms, 1, Len(ms) - 1)))

\* one pass of the loop body of call_languagetool, on the loop state
\* st = [corrected, changes, adj]
ApplyOneAdjSkipped(st, m) ==
    IF ~m.hasRepl THEN st
    ELSE LET start == m.offset + st.adj
             end == start + m.length
         IN [corrected |-> SliceTo(st.corrected, start) \o m.repl \o SliceFrom(st.corrected, end),
             changes |-> Append(st.changes,
                                [original |-> Slice(st.corrected, start, end),
                                 corrected |-> m.repl]),
             adj |-> st.adj]

ApplyOneSkippedShifts(st, m) ==
    IF ~m.hasRepl THEN [st EXCEPT !.adj = st.adj - m.length]
    ELSE LET start == m.offset + st.adj
             end == start + m.length
         IN [corrected |-> SliceTo(st.corrected, start) \o m.repl \o SliceFrom(st.corrected, end),
             changes |-> Append(st.changes,
                                [original |-> Slice(st.corrected, start, end),
                                 corrected |-> m.repl]),
             adj |-> st.adj + Len(m.repl) - m.length]

ApplyOneOriginalUnadjusted(st, m) ==
    IF ~m.hasRepl THEN st
    ELSE LET start == m.offset + st.adj
             end == start + m.length
         IN [corrected |-> SliceTo(st.corrected, start) \o m.repl \o SliceFrom(st.corrected, end),
             changes |-> Append(st.changes,
                                [original |-> Slice(st.corrected, m.offset, m.offset + m.length),
                                 corrected |-> m.repl]),
             adj |-> st.adj + Len(m.repl) - m.length]

ApplyOneAdjByReplacement(st, m) ==
    IF ~m.hasRepl THEN st
    ELSE LET start == m.offset + st.adj
             end == start + m.length
         IN [corrected |-> SliceTo(st.corrected, start) \o m.repl \o SliceFrom(st.corrected, end),
             changes |-> Append(st.changes,
                                [original |-> Slice(st.corrected, start, end),
                                 corrected |-> m.repl]),
             adj |-> st.adj + Len(m.repl)]

ApplyOne(st, m) ==
    IF ~m.hasRepl THEN st
    ELSE LET start == m.offset + st.adj
             end == start + m.length
         IN [corrected |-> SliceTo(st.corrected, start) \o m.repl \o SliceFrom(st.corrected, end),
             changes |-> Append(st.changes,
                                [original |-> Slice(st.corrected, start, end),
                                 corrected |-> m.repl]),
             adj |-> st.adj + Len(m.repl) - m.length]

RECURSIVE ApplyLoop(_, _)
ApplyLoop(st, ms) ==
    IF ms = <<>> THEN st ELSE ApplyLoop(ApplyOne(st, Head(ms)), Tail(ms))

\* the loop of call_languagetool / call_languagetool_free over the sorted matches
ApplyMatches(text, ms) ==
    ApplyLoop([corrected |-> text, changes |-> <<>>, adj |-> 0], SortedByOffset(ms))

\* ---------------------------------------------------------------- state
VARIABLES
    keys,          \* providers whose credential is set (read once at import)
    impl,          \* "bot": automation_bot imported; "fallback": index.py's inline versions
    \* one run of a fallback chain
    chain,         \* "call_ai" | "process_with_ai" | "process_grammar"
    cpc,           \* position in the chain: the provider tried next, or "done"
    ctext,         \* the text argument
    attempts,      \* the provider calls made so far, in order, with their outcomes
    cret,          \* the returned tuple (empty until the chain returns)
    \* one call of the grammar correction service
    gfun,          \* "call_languagetool" | "call_languagetool_free"
    gpc,           \* "call" | "done"
    gtext,         \* the text argument
    gresp,         \* the provider's answer to the last call
    gret,          \* the returned tuple
    \* one call of diagnose_text or recycling_check
    dop,           \* "diagnose_text" | "recycling_check"
    dpc,           \* "call" | "done"
    dtext,         \* the text argument
    dtarget,       \* the target_grade argument of recycling_check
    dout,          \* what the generative chain handed the parser (None: none consulted)
    dret,          \* the result, or the exception that left the function
    dlog,          \* the provider calls the generative chain made for it, in order
    \* one run of the workflow engine
    wkind,         \* "generic": run_5step_workflow; "case": run_case_workflow
    wcase,         \* the case argument of run_case_workflow
    wtype,         \* the request's TextType
    winput,        \* the text argument
    wpc,           \* the step about to run, or "done"
    results,       \* the ReviewResult list built so far
    current_text,  \* the local current_text
    wdown,         \* no provider call of the run has succeeded so far
    wreq,          \* the case identifier of the case-workflow request
    wcalls,        \* the functions the run has called, in order
    wouts,         \* what each step's provider call gave the step, in order
    \* one process-text request
    pvariant,      \* the module that serves it: "main" | "index" | "api_index" | "ai_services"
    pstep,         \* the request's step
    ptext,         \* the request's text
    poc,           \* what each provider does if it is called during the request
    ppc,           \* "call" | "done"
    presp,         \* the response
    \* requests served at the same time, one coroutine each
    rargs,         \* each request's arguments
    rframe         \* each request's frame: its locals and its position

cfgVars == <<keys, impl>>
chainVars == <<chain, cpc, ctext, attempts, cret>>
gramVars == <<gfun, gpc, gtext, gresp, gret>>
diagVars == <<dop, dpc, dtext, dtarget, dout, dret, dlog>>
wfVars == <<wkind, wcase, wtype, winput, wpc, results, current_text, wdown, wreq, wcalls,
           wouts>>
procVars == <<pvariant, pstep, ptext, poc, ppc, presp>>
concVars == <<rargs, rframe>>
vars == <<cfgVars, chainVars, gramVars, diagVars, wfVars, procVars, concVars>>

\* ------------------------------------------------------------ labels
\* a label is a str of one token
Str(tok) == <<tok>>
LabelClaude == Str("Claude 4.5 Sonnet")
LabelGemini == Str("Gemini 2.0 Flash")
LabelTrinka == Str("Trinka AI")
LabelLTFree == Str("LanguageTool (Free)")
LabelNoAI == Str("No AI API available (add ANTHROPIC_API_KEY or GEMINI_API_KEY)")
LabelNoGrammar == Str("Grammar check unavailable")
LabelLTError == Str("LanguageTool Error")

Providers == {"claude", "gemini", "trinka"}

\* ------------------------------------------- grammar correction service
\* What the grammar provider can answer: no 200 status, an exception (timeout,
\* network), or a 200 with a list of matches.
GramFail == {[kind |-> "status", matches |-> <<>>], [kind |-> "exc", matches |-> <<>>]}
GramOk(ms) == [kind |-> "ok", matches |-> ms]

\* call_languagetool: (corrected, changes), or (text, []) on any failure
call_languagetool(text, resp) ==
    IF resp.kind = "ok"
    THEN LET st == ApplyMatches(text, resp.matches) IN <<st.corrected, st.changes>>
    ELSE <<text, <<>>>>

\* call_languagetool_free: (corrected, label), or (None, error label) on failure
call_languagetool_free(text, resp) ==
    IF resp.kind = "ok"
    THEN IF resp.matches = <<>>
         THEN <<text, LabelLTFree>>
         ELSE <<ApplyMatches(text, resp.matches).corrected, LabelLTFree>>
    ELSE <<None, LabelLTError>>

GramLetters == <<"a", "b", "c", "d", "e", "f", "g", "h", "i", "j">>
GramTexts == {SubSeq(GramLetters, 1, n) : n \in 0..Min(MaxGramLen, Len(GramLetters))}
\* replacements[0]["value"]: empty (a deletion), as long as the span, longer
Repls == {<<>>, <<"X">>, <<"X", "X">>}
\* match["length"]: an insertion point, one character, two characters
SpanLengths == {0, 1, 2}

\* the matches a provider can report against text, with or without a replacement
MatchesFor(text) ==
    {Match(o, l, TRUE, r) : o \in 0..Len(text), l \in SpanLengths, r \in Repls}
    \cup {Match(o, l, FALSE, <<>>) : o \in 0..Len(text), l \in SpanLengths}

InRange(text, m) == m.offset + m.length <= Len(text)

\* one match more than MaxMatches, crowded at the start of the text: insertion points
\* and one-character spans at the first two offsets, deleting or replacing by "X"
CrowdedMatchesFor(text) ==
    {m \in {Match(o, l, TRUE, r) : o \in 0..1, l \in 0..1, r \in {<<>>, <<"X">>}} :
        InRange(text, m)}
CrowdedListsFor(text) == [1..(MaxMatches + 1) -> CrowdedMatchesFor(text)]

MatchListsFor(text) ==
    SeqsUpTo({m \in MatchesFor(text) : InRange(text, m)}, MaxMatches)
    \cup CrowdedListsFor(text)

GramInit ==
    /\ gfun \in {"call_languagetool", "call_languagetool_free"}
    /\ gtext \in GramTexts
    /\ gpc = "call"
    /\ gresp = GramOk(<<>>)
    /\ gret = <<>>

\* the provider answers with a list of matches
GrammarAnswers ==
    /\ gpc = "call"
    /\ \E ms \in MatchListsFor(gtext) :
          /\ gresp' = GramOk(ms)
          /\ gret' = IF gfun = "call_languagetool"
                     THEN call_languagetool(gtext, GramOk(ms))
                     ELSE call_languagetool_free(gtext, GramOk(ms))
    /\ gpc' = "done"
    /\ UNCHANGED <<gfun, gtext, cfgVars, chainVars, diagVars, wfVars, procVars, concVars>>

\* the provider call fails
GrammarFails ==
    /\ gpc = "call"
    /\ \E f \in GramFail :
          /\ gresp' = f
          /\ gret' = IF gfun = "call_languagetool"
                     THEN call_languagetool(gtext, f)
                     ELSE call_languagetool_free(gtext, f)
    /\ gpc' = "done"
    /\ UNCHANGED <<gfun, gtext, cfgVars, chainVars, diagVars, wfVars, procVars, concVars>>

GramNext == GrammarAnswers \/ GrammarFails

\* ------------------------------------------------------ fallback chains
\* What one HTTP provider call can do: a status other than 200, an exception
\* (timeout, network), a 200 whose JSON lacks the path the code indexes, a 200
\* whose JSON object lacks the optional field the code .get()s, or a 200 that
\* carries text.
Outcome(k, b) == [kind |-> k, body |-> b]
FailKinds == {"status", "exc", "badpayload"}
Failures == {Outcome(k, <<>>) : k \in FailKinds}
NoField == Outcome("nofield", <<>>)
Bodies == {<<>>, <<" ">>, <<"b">>, <<"b", " ">>}
AIOutcomes == Failures \cup {Outcome("ok", b) : b \in Bodies}
TrinkaOutcomes == Failures \cup {NoField} \cup {Outcome("ok", b) : b \in Bodies}

\* one entry of the log of provider calls: who was called, how the call ended, and
\* the text the provider's wrapper made of the answer
Attempt(p, k, out) == [provider |-> p, kind |-> k, out |-> out]

\* The body of one `if KEY: try: post ... except: pass` block of call_ai:
\* the text it returns, or None when control falls through to the next block.
ai_block(p, oc) ==
    IF p \in keys /\ oc.kind = "ok" THEN Strip(oc.body) ELSE None

ai_block_log(p, oc) ==
    IF p \in keys
    THEN <<Attempt(p, oc.kind, IF oc.kind = "ok" THEN Strip(oc.body) ELSE None)>>
    ELSE <<>>

\* call_ai(prompt, text) -> str.  A block that returns "" has still returned.
call_ai_run(text, ocC, ocG) ==
    LET retC == "claude" \in keys /\ ocC.kind = "ok"
        retG == "gemini" \in keys /\ ocG.kind = "ok"
    IN IF retC
       THEN [ret |-> <<ai_block("claude", ocC)>>, log |-> ai_block_log("claude", ocC)]
       ELSE IF retG
       THEN [ret |-> <<ai_block("gemini", ocG)>>,
             log |-> ai_block_log("claude", ocC) \o ai_block_log("gemini", ocG)]
       ELSE [ret |-> <<text>>,
             log |-> ai_block_log("claude", ocC) \o ai_block_log("gemini", ocG)]

call_ai(text, ocC, ocG) == call_ai_run(text, ocC, ocG).ret[1]

\* call_claude / call_gemini of index.py -> (result | None, label)
call_generative(p, label, oc) ==
    IF p \notin keys THEN <<None, Str("No API key")>>
    ELSE IF oc.kind = "ok" THEN <<Strip(oc.body), label>>
    ELSE <<None, Str("Error")>>

call_claude(oc) == call_generative("claude", LabelClaude, oc)
call_gemini(oc) == call_generative("gemini", LabelGemini, oc)

\* call_trinka(text) -> (result | None, label)
call_trinka(text, oc) ==
    IF "trinka" \notin keys THEN <<None, Str("No Trinka API key")>>
    ELSE IF oc.kind = "ok" THEN <<oc.body, LabelTrinka>>
    ELSE IF oc.kind = "nofield" THEN <<text, LabelTrinka>>
    ELSE <<None, Str("Error")>>

wrapper_log(p, needsKey, oc, result) ==
    IF needsKey /\ p \notin keys THEN <<>> ELSE <<Attempt(p, oc.kind, result)>>

\* `if result:` of process_with_ai and process_grammar
Accepted(r) == Truthy(r[1])

\* process_with_ai(text, prompt) -> (text, label)
process_with_ai_run(text, ocC, ocG) ==
    LET rC == call_claude(ocC)
        rG == call_gemini(ocG)
        logC == wrapper_log("claude", TRUE, ocC, rC[1])
        logG == wrapper_log("gemini", TRUE, ocG, rG[1])
    IN IF Accepted(rC) THEN [ret |-> rC, log |-> logC]
       ELSE IF Accepted(rG) THEN [ret |-> rG, log |-> logC \o logG]
       ELSE [ret |-> <<text, LabelNoAI>>, log |-> logC \o logG]

process_with_ai(text, ocC, ocG) == process_with_ai_run(text, ocC, ocG).ret

\* process_grammar(text) -> (text, label)
process_grammar_run(text, ocT, respLT) ==
    LET rT == call_trinka(text, ocT)
        rL == call_languagetool_free(text, respLT)
        logT == wrapper_log("trinka", TRUE, ocT, rT[1])
        logL == wrapper_log("languagetool", FALSE, respLT, rL[1])
    IN IF Accepted(rT) THEN [ret |-> rT, log |-> logT]
       ELSE IF Accepted(rL) THEN [ret |-> rL, log |-> logT \o logL]
       ELSE [ret |-> <<text, LabelNoGrammar>>, log |-> logT \o logL]

process_grammar(text, ocT, respLT) == process_grammar_run(text, ocT, respLT).ret

ChainTexts == SeqsUpTo({"a", " "}, MaxChainLen)

\* the answers of the grammar provider the chain is run against: at most one match
ChainGramResponses(text) ==
    GramFail \cup {GramOk(<<>>)}
    \cup {GramOk(<<m>>) : m \in {x \in MatchesFor(text) : InRange(text, x)}}

ChainInit ==
    /\ chain \in {"call_ai", "process_with_ai", "process_grammar"}
    /\ cpc = "call"
    /\ ctext \in ChainTexts
    /\ attempts = <<>>
    /\ cret = <<>>

RunCallAI ==
    /\ chain = "call_ai" /\ cpc = "call"
    /\ \E ocC \in AIOutcomes, ocG \in AIOutcomes :
          LET r == call_ai_run(ctext, ocC, ocG)
          IN cret' = r.ret /\ attempts' = r.log
    /\ cpc' = "done"
    /\ UNCHANGED <<chain, ctext, cfgVars, gramVars, diagVars, wfVars, procVars, concVars>>

RunProcessWithAI ==
    /\ chain = "process_with_ai" /\ cpc = "call"
    /\ \E ocC \in AIOutcomes, ocG \in AIOutcomes :
          LET r == process_with_ai_run(ctext, ocC, ocG)
          IN cret' = r.ret /\ attempts' = r.log
    /\ cpc' = "done"
    /\ UNCHANGED <<chain, ctext, cfgVars, gramVars, diagVars, wfVars, procVars, concVars>>

RunProcessGrammar ==
    /\ chain = "process_grammar" /\ cpc = "call"
    /\ \E ocT \in TrinkaOutcomes, respLT \in ChainGramResponses(ctext) :
          LET r == process_grammar_run(ctext, ocT, respLT)
          IN cret' = r.ret /\ attempts' = r.log
    /\ cpc' = "done"
    /\ UNCHANGED <<chain, ctext, cfgVars, gramVars, diagVars, wfVars, procVars, concVars>>

ChainNext == RunCallAI \/ RunProcessWithAI \/ RunProcessGrammar

\* ------------------------------------------------- structured output
\* A JSON value as json.loads types it; Absent stands for a key the object lacks.
Absent == [t |-> "absent", s |-> "", n |-> 0, l |-> <<>>]
VStr(x) == [t |-> "str", s |-> x, n |-> 0, l |-> <<>>]
VNum(x) == [t |-> "num", s |-> "", n |-> x, l |-> <<>>]
VBool(x) == [t |-> "bool", s |-> x, n |-> 0, l |-> <<>>]
VNull == [t |-> "null", s |-> "", n |-> 0, l |-> <<>>]
VList(x) == [t |-> "list", s |-> "", n |-> 0, l |-> x]

JsonKeys == {"grade_level", "readability_score", "text_type", "issues", "case",
             "current_level", "target_level", "is_appropriate", "recommendation", "reason"}
EmptyDict == [k \in JsonKeys |-> Absent]
Dict(pairs) == [k \in JsonKeys |-> IF k \in DOMAIN pairs THEN pairs[k] ELSE Absent]

\* The brace-delimited blocks a text can hold, each one token.  Its literal has no
\* inner brace and no white space:
\*   "{diag}"       {"grade_level":"M2","readability_score":75,"text_type":"A",
\*                   "issues":["long"],"case":"CASE_A"}
\*   "{grade}"      {"grade_level":"H1"}
\*   "{notjson}"    {grade_level:M2}
\*   "{score:str}"  {"readability_score":"high"}
\*   "{score:null}" {"readability_score":null}
\*   "{case:list}"  {"case":["CASE_A"]}
\*   "{case:num}"   {"case":4}
\*   "{recycle}"    {"current_level":"M2","target_level":"M1","is_appropriate":false,
\*                   "recommendation":"move_up","reason":"hard"}
\*   "{rewrite}"    {"recommendation":"rewrite"}
JsonBlocks == {"{diag}", "{grade}", "{notjson}", "{score:str}", "{score:null}",
               "{case:list}", "{case:num}", "{recycle}", "{rewrite}"}

\* json.loads of a block: the dict, or ok = FALSE when it raises
json_loads(b) ==
    CASE b = "{diag}" ->
            [ok |-> TRUE,
             data |-> Dict([grade_level |-> VStr("M2"), readability_score |-> VNum(75),
                            text_type |-> VStr("A"), issues |-> VList(<<"long">>),
                            case |-> VStr("CASE_A")])]
      [] b = "{grade}" -> [ok |-> TRUE, data |-> Dict([grade_level |-> VStr("H1")])]
      [] b = "{notjson}" -> [ok |-> FALSE, data |-> EmptyDict]
      [] b = "{score:str}" ->
            [ok |-> TRUE, data |-> Dict([readability_score |-> VStr("high")])]
      [] b = "{score:null}" -> [ok |-> TRUE, data |-> Dict([readability_score |-> VNull])]
      [] b = "{case:list}" -> [ok |-> TRUE, data |-> Dict([case |-> VList(<<"CASE_A">>)])]
      [] b = "{case:num}" -> [ok |-> TRUE, data |-> Dict([case |-> VNum(4)])]
      [] b = "{recycle}" ->
            [ok |-> TRUE,
             data |-> Dict([current_level |-> VStr("M2"), target_level |-> VStr("M1"),
                            is_appropriate |-> VBool("false"),
                            recommendation |-> VStr("move_up"), reason |-> VStr("hard")])]
      [] b = "{rewrite}" -> [ok |-> TRUE, data |-> Dict([recommendation |-> VStr("rewrite")])]

\* re.search(r'\{[^}]+\}', result): the leftmost block, or None
HasBlock(text) == \E i \in 1..Len(text) : text[i] \in JsonBlocks
FirstBlock(text) ==
    text[CHOOSE i \in 1..Len(text) :
            text[i] \in JsonBlocks /\ \A j \in 1..(i - 1) : text[j] \notin JsonBlocks]

\* dict.get(key, default)
Get(data, key, default) == IF data[key].t = "absent" THEN default ELSE data[key]

\* ----------------------------------------------------- diagnosis engine
CaseNames == {"CASE_A", "CASE_B", "CASE_C", "CASE_D", "NORMAL"}

\* workflows[case] of diagnose_text
RecommendedWorkflow(c) ==
    CASE c = "CASE_A" -> <<"Hemingway", "QuillBot(Simple)", "Review">>
      [] c = "CASE_B" -> <<"Wordtune(Casual)", "LanguageTool">>
      [] c = "CASE_C" -> <<"QuillBot(FreezeWords)", "ProWritingAid">>
      [] c = "CASE_D" -> <<"LanguageTool", "Manual Review">>
      [] c = "NORMAL" -> <<"LanguageTool", "Hemingway", "QuillBot", "ProWritingAid", "Review">>

\* the try block of diagnose_text: the dict parsed from the chain's output, {} when
\* there is no block or json.loads raises
DiagnosisData(result) ==
    IF HasBlock(result) /\ json_loads(FirstBlock(result)).ok
    THEN json_loads(FirstBlock(result)).data
    ELSE EmptyDict

\* float(x) raises for None, a list, and a str that is no number
NumericStrings == {"75"}
FloatRaises(v) == v.t \in {"null", "list"} \/ (v.t = "str" /\ v.s \notin NumericStrings)
FloatOf(v) == IF v.t = "str" THEN 75 ELSE IF v.t = "bool" THEN 1 ELSE v.n

\* case_mapping.get(x, NORMAL) hashes x: a list raises TypeError
HashRaises(v) == v.t = "list"

Raised(exc) == [raised |-> TRUE, exc |-> exc]

\* diagnose_text of automation_bot, from the chain's output on
diagnose_parse(result) ==
    LET data == DiagnosisData(result)
        caseVal == Get(data, "case", VStr("NORMAL"))
        case == IF caseVal.t = "str" /\ caseVal.s \in CaseNames THEN caseVal.s ELSE "NORMAL"
        score == Get(data, "readability_score", VNum(50))
    IN IF HashRaises(caseVal) THEN Raised("TypeError")
       ELSE IF FloatRaises(score) THEN Raised(IF score.t = "str" THEN "ValueError" ELSE "TypeError")
       ELSE [raised |-> FALSE,
             case |-> case,
             text_type |-> IF data["text_type"] = VStr("A") THEN "TYPE_A" ELSE "TYPE_B",
             grade_level |-> Get(data, "grade_level", VStr("M1")),
             readability_score |-> FloatOf(score),
             issues_found |-> Get(data, "issues", VList(<<>>)),
             recommended_workflow |-> RecommendedWorkflow(case)]

\* the characters a token stands for
TokenLen(tok) ==
    CASE tok = "S:" -> 16
      [] tok = "I:" -> 14
      [] tok = "F:" -> 11
      [] tok \in JsonBlocks -> 20
      [] OTHER -> 1

\* text.split(): the maximal runs of non-space tokens
RECURSIVE Split(_)
Split(s) ==
    IF s = <<>> THEN <<>>
    ELSE IF IsSpace(Head(s)) THEN Split(Tail(s))
    ELSE LET n == CHOOSE k \in 1..Len(s) :
                     /\ \A j \in 1..k : ~IsSpace(s[j])
                     /\ (k = Len(s) \/ IsSpace(s[k + 1]))
         IN <<SubSeq(s, 1, n)>> \o Split(SubSeq(s, n + 1, Len(s)))

RECURSIVE CharLen(_)
CharLen(w) == IF w = <<>> THEN 0 ELSE TokenLen(Head(w)) + CharLen(Tail(w))

RECURSIVE SumCharLen(_)
SumCharLen(ws) == IF ws = <<>> THEN 0 ELSE CharLen(Head(ws)) + SumCharLen(Tail(ws))

\* diagnose_text of index.py (the inline fallback): no generative provider is
\* consulted and the grammar provider's answer is dropped
diagnose_fallback(text) ==
    LET words == Split(text)
        word_count == Len(words)
        \* avg_word_len > 8, over integers
        longWords == SumCharLen(words) > 8 * Max(word_count, 1)
    IN [raised |-> FALSE,
        case |-> IF longWords THEN "CASE_A" ELSE "NORMAL",
        text_type |-> "TYPE_A",
        grade_level |-> VStr("M1"),
        readability_score |-> 70,
        issues_found |-> VList((IF longWords THEN <<"word too long">> ELSE <<>>)
                               \o (IF word_count > 100 THEN <<"sentence too long">> ELSE <<>>)),
        recommended_workflow |-> <<"LanguageTool", "Review">>]

\* recycling_check of automation_bot, from the chain's output on: the parsed dict as
\* it is, or the default
recycling_parse(result, target_grade) ==
    IF HasBlock(result) /\ json_loads(FirstBlock(result)).ok
    THEN [raised |-> FALSE, parsed |-> TRUE, data |-> json_loads(FirstBlock(result)).data]
    ELSE [raised |-> FALSE, parsed |-> FALSE,
          data |-> Dict([current_level |-> VStr(target_grade),
                         is_appropriate |-> VBool("true"),
                         recommendation |-> VStr("keep"),
                         reason |-> VStr("Unable to analyze")])]

\* recycling_check of index.py (the inline fallback)
recycling_fallback(target_grade) ==
    [raised |-> FALSE, parsed |-> FALSE,
     data |-> Dict([current_level |-> VStr(target_grade),
                    is_appropriate |-> VBool("true"),
                    recommendation |-> VStr("keep"),
                    reason |-> VStr("Analysis complete")])]

\* the texts diagnosed: prose, with or without blocks of their own
DiagTexts == SeqsUpTo({"a", " ", "{diag}", "{score:str}", "{recycle}"}, MaxDiagLen)
\* what a generative provider can answer to the structured-output request
DiagBodies == SeqsUpTo({"a", " "} \cup JsonBlocks, 1) \cup {<<"a", " ", "{diag}", " ">>}
DiagOutcomes == Failures \cup {Outcome("ok", b) : b \in DiagBodies}
Grades == {"M1", "M2"}

DiagInit ==
    /\ dop \in {"diagnose_text", "recycling_check"}
    /\ dpc = "call"
    /\ dtext \in DiagTexts
    /\ dtarget \in (IF dop = "recycling_check" THEN Grades ELSE {"M1"})
    /\ dout = None
    /\ dret = [raised |-> FALSE]
    /\ dlog = <<>>

\* diagnose_text, whichever implementation index.py imported
Diagnose ==
    /\ dop = "diagnose_text" /\ dpc = "call"
    /\ IF impl = "bot"
       THEN \E ocC \in DiagOutcomes, ocG \in DiagOutcomes :
               /\ dout' = call_ai(dtext, ocC, ocG)
               /\ dret' = diagnose_parse(call_ai(dtext, ocC, ocG))
               /\ dlog' = call_ai_run(dtext, ocC, ocG).log
       ELSE \E resp \in ChainGramResponses(dtext) :
               /\ dout' = None
               /\ dret' = diagnose_fallback(dtext)
               /\ dlog' = <<>>
    /\ dpc' = "done"
    /\ UNCHANGED <<dop, dtext, dtarget, cfgVars, chainVars, gramVars, wfVars, procVars, concVars>>

\* recycling_check, whichever implementation index.py imported
RecyclingCheck ==
    /\ dop = "recycling_check" /\ dpc = "call"
    /\ IF impl = "bot"
       THEN \E ocC \in DiagOutcomes, ocG \in DiagOutcomes :
               /\ dout' = call_ai(dtext, ocC, ocG)
               /\ dret' = recycling_parse(call_ai(dtext, ocC, ocG), dtarget)
               /\ dlog' = call_ai_run(dtext, ocC, ocG).log
       ELSE /\ dout' = None
            /\ dret' = recycling_fallback(dtarget)
            /\ dlog' = <<>>
    /\ dpc' = "done"
    /\ UNCHANGED <<dop, dtext, dtarget, cfgVars, chainVars, gramVars, wfVars, procVars, concVars>>

DiagNext == Diagnose \/ RecyclingCheck

\* ------------------------------------------------------ tool simulations
\* re.search(MARKER + r'\s*(.+)$', result, re.DOTALL): the leftmost marker that has
\* at least one character after it matches
HasMarkerGroup(result, mk) == \E i \in 1..(Len(result) - 1) : result[i] = mk

\* match.group(1).strip(): \s* is greedy but gives back a character when nothing
\* else follows, so the stripped group is the stripped rest of the text
MarkerGroup(result, mk) ==
    LET i == CHOOSE i \in 1..(Len(result) - 1) :
                 result[i] = mk /\ \A j \in 1..(i - 1) : result[j] # mk
    IN Strip(SubSeq(result, i + 1, Len(result)))

\* `group if match else text`
ParsedOrText(result, mk, text) ==
    IF HasMarkerGroup(result, mk) THEN MarkerGroup(result, mk) ELSE text

Digits == <<"0", "1", "2", "3", "4", "5", "6", "7", "8", "9">>
IsDigit(tok) == \E d \in 1..10 : Digits[d] = tok
DigitValue(tok) == (CHOOSE d \in 1..10 : Digits[d] = tok) - 1

\* int() of the leading run of digits of s
RECURSIVE LeadingInt(_, _)
LeadingInt(s, acc) ==
    IF s # <<>> /\ IsDigit(Head(s))
    THEN LeadingInt(Tail(s), 10 * acc + DigitValue(Head(s)))
    ELSE acc

\* re.search(r'GRADE_LEVEL:\s*(\d+)', result): "G:" is the token of 'GRADE_LEVEL:'
GradeAt(result, i) ==
    LET rest == LStrip(SubSeq(result, i + 1, Len(result)))
    IN rest # <<>> /\ IsDigit(Head(rest))

DefaultGrade == 6

HemingwayGrade(result) ==
    IF \E i \in 1..Len(result) : result[i] = "G:" /\ GradeAt(result, i)
    THEN LET i == CHOOSE i \in 1..Len(result) :
                     /\ result[i] = "G:" /\ GradeAt(result, i)
                     /\ \A j \in 1..(i - 1) : ~(result[j] = "G:" /\ GradeAt(result, j))
         IN LeadingInt(LStrip(SubSeq(result, i + 1, Len(result))), 0)
    ELSE DefaultGrade

\* simulate_hemingway, from the chain's output on: (simplified, grade)
simulate_hemingway(text, result) ==
    [simplified |-> ParsedOrText(result, "S:", text), grade |-> HemingwayGrade(result)]

\* simulate_prowritingaid, from the chain's output on: improved
simulate_prowritingaid(text, result) == ParsedOrText(result, "I:", text)

\* run_13point_check, from the chain's output on: final
run_13point_check(text, result) == ParsedOrText(result, "F:", text)

\* ------------------------------------------------------ workflow engine
NoScore == <<>>
Score(n) == <<n>>
Notes(k, n) == [kind |-> k, n |-> n]
NoNotes == Notes("", 0)

ReviewResult(step, step_name, tool_used, original_text, processed_text, changes, score, notes) ==
    [step |-> step, step_name |-> step_name, tool_used |-> Str(tool_used),
     original_text |-> original_text, processed_text |-> processed_text,
     changes |-> changes, score |-> score, notes |-> notes]

\* `current_text = <the step's output>` after a step's append
NextCurrentStale(current, processed) == current
NextCurrent(current, processed) == processed

\* what a generative provider can answer a workflow step
WfBodies == {<<>>, <<"b">>, <<"G:", "7", " ", "S:", " ", "b", " ">>, <<"I:", "b", " ", "F:", "c">>}
WfOutcomes == {Outcome("status", <<>>)} \cup {Outcome("ok", b) : b \in WfBodies}
\* what the grammar provider can answer a workflow step
WfGramResponses(text) ==
    GramFail \cup {GramOk(<<>>)}
    \cup (IF Len(text) >= 1 /\ text # None THEN {GramOk(<<Match(0, 1, TRUE, <<"X">>)>>)} ELSE {})

\* the texts reviewed: prose, with or without one of the literals the parsers search
Prose == SeqsUpTo({"a"}, MaxWfLen)
WfTexts ==
    {t \in {p \o m \o q : p \in Prose, q \in Prose,
                           m \in {<<>>, <<"S:">>, <<"I:">>, <<"F:">>, <<"G:", "7">>}} :
        Len(t) <= MaxWfLen}
TextTypes == {"TYPE_A", "TYPE_B"}

\* whether a chain run, or a grammar call, was served by a provider
Served(log) == \E i \in 1..Len(log) : log[i].kind = "ok"

\* text_type: TextType = TextType.TYPE_A, the parameter default of run_5step_workflow
\* (and text_type: str = "A" of AutoReviewRequest)
DefaultTextType == "TYPE_A"

\* the text_type parameter of run_5step_workflow: auto_review passes the request's,
\* run_case_workflow passes none and the default applies
TextTypeParam == IF wkind = "generic" THEN wtype ELSE DefaultTextType

\* the case identifiers a case-workflow request can carry: the five the endpoint's
\* table knows, and one it does not
CaseIds == CaseNames \cup {"CASE_X"}

\* case_mapping.get(request.case, ScenarioCase.NORMAL) of the case_workflow endpoint
CaseMapping(id) == IF id \in CaseNames THEN id ELSE "NORMAL"

WfInit ==
    /\ wkind \in {"generic", "case"}
    /\ wreq \in (IF wkind = "case" THEN CaseIds ELSE {"none"})
    /\ wcase = (IF wkind = "case" THEN CaseMapping(wreq) ELSE "NORMAL")
    /\ wcalls = <<>>
    /\ wouts = <<>>
    /\ wtype \in TextTypes
    /\ winput \in WfTexts
    /\ wpc = "start"
    /\ results = <<>>
    /\ current_text = winput
    /\ wdown = TRUE

WfOther == <<cfgVars, chainVars, gramVars, diagVars, procVars, concVars>>
WfArgs == <<wkind, wcase, wtype, winput, wreq>>

\* the dispatch on entry: index.py's names are bound to automation_bot's functions
\* or to the inline fallbacks, whose run_case_workflow is run_5step_workflow
CaseStartMisrouted(c) ==
    CASE c = "CASE_A" -> "A1"
      [] c = "CASE_B" -> "B1"
      [] c = "CASE_C" -> "A1"
      [] c = "CASE_D" -> "D1"
      [] OTHER -> "g1"

\* the if / elif chain of run_case_workflow: the branch a case enters
CaseStart(c) ==
    CASE c = "CASE_A" -> "A1"
      [] c = "CASE_B" -> "B1"
      [] c = "CASE_C" -> "C1"
      [] c = "CASE_D" -> "D1"
      [] OTHER -> "g1"

Enter ==
    /\ wpc = "start"
    /\ wpc' = IF impl = "fallback" THEN "f1"
              ELSE IF wkind = "generic" THEN "g1"
              ELSE CaseStart(wcase)
    /\ UNCHANGED <<WfArgs, results, current_text, wdown, wcalls, wouts, WfOther>>

MechanicalNotesWhenChanged(changes) ==
    IF changes = <<>> THEN NoNotes ELSE Notes("native speaker review", 0)

\* notes="Recommend native speaker review" of the CASE_D branch, whatever the changes
MechanicalNotes(changes) == Notes("native speaker review", 0)

\* the notes of a grammar step: f"Found {len(changes)} issues" in the generic
\* pipeline, the review flag in CASE_D, the default "" in CASE_B
GrammarNotes(notesKind, changes) ==
    CASE notesKind = "found" -> Notes("found", Len(changes))
      [] notesKind = "native speaker review" -> MechanicalNotes(changes)
      [] OTHER -> NoNotes

\* what a step's function got back from its provider call: the returned text, and
\* whether a provider served it or it is the echo of the step's input
ChainGave(out, served) == [out |-> out, served |-> served]

\* a step that calls call_languagetool
GrammarStep(at, next, step, step_name, notesKind, advance) ==
    /\ impl = "bot" /\ wpc = at
    /\ \E resp \in WfGramResponses(current_text) :
          LET r == call_languagetool(current_text, resp)
          IN /\ results' = Append(results,
                    ReviewResult(step, step_name, "LanguageTool", current_text, r[1], r[2],
                                 NoScore, GrammarNotes(notesKind, r[2])))
             /\ current_text' = IF advance THEN NextCurrent(current_text, r[1]) ELSE current_text
             /\ wdown' = (wdown /\ resp.kind # "ok")
             /\ wouts' = Append(wouts, ChainGave(r[1], resp.kind = "ok"))
    /\ wcalls' = Append(wcalls, "call_languagetool")
    /\ wpc' = next
    /\ UNCHANGED <<WfArgs, WfOther>>

\* a step that calls simulate_hemingway
HemingwayStep(at, next, step, step_name, notesKind) ==
    /\ impl = "bot" /\ wpc = at
    /\ \E ocC \in WfOutcomes, ocG \in WfOutcomes :
          LET run == call_ai_run(current_text, ocC, ocG)
              h == simulate_hemingway(current_text, run.ret[1])
          IN /\ results' = Append(results,
                    ReviewResult(step, step_name, "Hemingway", current_text, h.simplified,
                                 <<>>, Score(h.grade), Notes(notesKind, h.grade)))
             /\ current_text' = NextCurrent(current_text, h.simplified)
             /\ wdown' = (wdown /\ ~Served(run.log))
             /\ wouts' = Append(wouts, ChainGave(run.ret[1], Served(run.log)))
    /\ wcalls' = Append(wcalls, "simulate_hemingway")
    /\ wpc' = next
    /\ UNCHANGED <<WfArgs, WfOther>>

\* a step that calls simulate_quillbot(mode) or simulate_wordtune(style)
ParaphraseStep(at, next, step, step_name, tool, instr, advance) ==
    /\ impl = "bot" /\ wpc = at
    /\ \E ocC \in WfOutcomes, ocG \in WfOutcomes :
          LET run == call_ai_run(current_text, ocC, ocG)
          IN /\ results' = Append(results,
                    ReviewResult(step, step_name, tool, current_text, run.ret[1],
                                 <<>>, NoScore, NoNotes))
             /\ current_text' = IF advance THEN NextCurrent(current_text, run.ret[1])
                                ELSE current_text
             /\ wdown' = (wdown /\ ~Served(run.log))
             /\ wouts' = Append(wouts, ChainGave(run.ret[1], Served(run.log)))
    /\ wcalls' = Append(wcalls, instr)
    /\ wpc' = next
    /\ UNCHANGED <<WfArgs, WfOther>>

\* a step that calls simulate_prowritingaid
StyleStep(at, next, step, step_name, advance) ==
    /\ impl = "bot" /\ wpc = at
    /\ \E ocC \in WfOutcomes, ocG \in WfOutcomes :
          LET run == call_ai_run(current_text, ocC, ocG)
              styled == simulate_prowritingaid(current_text, run.ret[1])
          IN /\ results' = Append(results,
                    ReviewResult(step, step_name, "ProWritingAid", current_text, styled,
                                 <<>>, NoScore, Notes("issues", 0)))
             /\ current_text' = IF advance THEN NextCurrent(current_text, styled)
                                ELSE current_text
             /\ wdown' = (wdown /\ ~Served(run.log))
             /\ wouts' = Append(wouts, ChainGave(run.ret[1], Served(run.log)))
    /\ wcalls' = Append(wcalls, "simulate_prowritingaid")
    /\ wpc' = next
    /\ UNCHANGED <<WfArgs, WfOther>>

\* run_5step_workflow of automation_bot
Generic1 == GrammarStep("g1", "g2", 1, "remove errors", "found", TRUE)
Generic2 == HemingwayStep("g2", "g3", 2, "levelling", "grade")
Generic3Formal ==
    /\ TextTypeParam = "TYPE_A"
    /\ ParaphraseStep("g3", "g4", 3, "context review", "QuillBot (Standard)",
                      "quillbot:standard", TRUE)
Generic3Casual ==
    /\ TextTypeParam # "TYPE_A"
    /\ ParaphraseStep("g3", "g4", 3, "context review", "Wordtune (Casual+Spices)",
                      "wordtune:casual_spices", TRUE)
Generic4 == StyleStep("g4", "g5", 4, "style", TRUE)
Generic5 ==
    /\ impl = "bot" /\ wpc = "g5"
    /\ \E ocC \in WfOutcomes, ocG \in WfOutcomes :
          LET run == call_ai_run(current_text, ocC, ocG)
              final == run_13point_check(current_text, run.ret[1])
          IN /\ results' = Append(results,
                    ReviewResult(5, "re-review (13-Point)", "13-Point Checklist",
                                 current_text, final, <<>>, NoScore, Notes("checklist", 0)))
             /\ wdown' = (wdown /\ ~Served(run.log))
             /\ wouts' = Append(wouts, ChainGave(run.ret[1], Served(run.log)))
    /\ wcalls' = Append(wcalls, "run_13point_check")
    /\ wpc' = "done"
    /\ UNCHANGED <<WfArgs, current_text, WfOther>>

\* run_case_workflow of automation_bot
CaseA1 == HemingwayStep("A1", "A2", 1, "levelling", "notes")
CaseA2 == ParaphraseStep("A2", "done", 2, "simplify", "QuillBot (Simple)", "quillbot:simple", TRUE)
CaseB1 == ParaphraseStep("B1", "B2", 1, "tone", "Wordtune (Casual+Spices)",
                         "wordtune:casual_spices", TRUE)
CaseB2StepRepeated == GrammarStep("B2", "done", 1, "grammar check", "", FALSE)
CaseB2 == GrammarStep("B2", "done", 2, "grammar check", "", FALSE)
CaseC1 == ParaphraseStep("C1", "C2", 1, "restructure", "QuillBot (Freeze Words)",
                         "quillbot:freeze_words", TRUE)
CaseC2 == StyleStep("C2", "done", 2, "style", FALSE)
CaseD1 == GrammarStep("D1", "done", 1, "mechanical errors", "native speaker review", FALSE)

\* len() of a label, in characters
LabelChars(label) == IF label = LabelLTFree THEN 19 ELSE 20

\* run_5step_workflow of index.py (the inline fallback)
Fallback1 ==
    /\ impl = "fallback" /\ wpc = "f1"
    /\ \E resp \in WfGramResponses(current_text) :
          LET r == call_languagetool_free(current_text, resp)
          IN /\ results' = Append(results,
                    ReviewResult(1, "remove errors", "LanguageTool", current_text, r[1], r[2],
                                 NoScore, Notes("found", LabelChars(r[2]))))
             /\ current_text' = NextCurrent(current_text, r[1])
             /\ wdown' = (wdown /\ resp.kind # "ok")
             /\ wouts' = Append(wouts, ChainGave(r[1], resp.kind = "ok"))
    /\ wcalls' = Append(wcalls, "call_languagetool_free")
    /\ wpc' = "f2"
    /\ UNCHANGED <<WfArgs, WfOther>>

Fallback2 ==
    /\ impl = "fallback" /\ wpc = "f2"
    /\ \E ocC \in WfOutcomes, ocG \in WfOutcomes :
          LET run == process_with_ai_run(current_text, ocC, ocG)
          IN /\ results' = Append(results,
                    [ReviewResult(2, "levelling", "", current_text, run.ret[1],
                                  <<>>, NoScore, NoNotes) EXCEPT !.tool_used = run.ret[2]])
             /\ current_text' = NextCurrent(current_text, run.ret[1])
             /\ wdown' = (wdown /\ ~Served(run.log))
             /\ wouts' = Append(wouts, ChainGave(run.ret[1], Served(run.log)))
    /\ wcalls' = Append(wcalls, "process_with_ai")
    /\ wpc' = "f3"
    /\ UNCHANGED <<WfArgs, WfOther>>

\* steps 3 to 5 of the fallback: appended without any call
FallbackRest ==
    /\ impl = "fallback" /\ wpc \in {"f3", "f4", "f5"}
    /\ LET step == CASE wpc = "f3" -> 3 [] wpc = "f4" -> 4 [] wpc = "f5" -> 5
       IN results' = Append(results,
              ReviewResult(step, "fallback step", "AI", current_text, current_text,
                           <<>>, NoScore, IF step = 5 THEN Notes("review done", 0) ELSE NoNotes))
    /\ wpc' = CASE wpc = "f3" -> "f4" [] wpc = "f4" -> "f5" [] wpc = "f5" -> "done"
    /\ UNCHANGED <<WfArgs, current_text, wdown, wcalls, wouts, WfOther>>

WfNext ==
    \/ Enter
    \/ Generic1 \/ Generic2 \/ Generic3Formal \/ Generic3Casual \/ Generic4 \/ Generic5
    \/ CaseA1 \/ CaseA2 \/ CaseB1 \/ CaseB2 \/ CaseC1 \/ CaseC2 \/ CaseD1
    \/ Fallback1 \/ Fallback2 \/ FallbackRest

\* ------------------------------------------------------ process-text
\* The four process-text variants: main.py (local rules only), index.py (Gemini,
\* Trinka, LanguageTool), api/index.py (the two chains) and the step router of
\* ai_services.py (OpenAI, LanguageTool).

\* a response: the HTTP status, the result text, api_used, the providers called
Resp(status, result, api_used, called) ==
    [status |-> status, result |-> result, api_used |-> api_used, called |-> called]
NoResp == Resp(0, None, Str(""), <<>>)

\* raise HTTPException(status_code=...)
HttpError(status, called) == Resp(status, None, Str(""), called)

\* "very " stands for the intensifiers the local rules delete ("매우 ", "정말 ",
\* "아주 "), "doeyo" for the misspellings they rewrite ("되요", "됬", "않됩")
Intensifiers == {"very "}
Misspellings == {"doeyo"}

\* text.replace(w, "") for each intensifier w
RemoveIntensifiers(text) == SelectSeq(text, LAMBDA t : t \notin Intensifiers)

\* text.replace(w, w') for each misspelling w
FixMisspellings(text) ==
    [i \in 1..Len(text) |-> IF text[i] \in Misspellings THEN "dwaeyo" ELSE text[i]]

\* the steps a request can carry: the six supported ones and one on either side
Steps == 0..7
ValidStep(step) == 1 <= step /\ step <= 6

\* process_text of main.py
main_process_text(step, text) ==
    IF ~ValidStep(step) THEN HttpError(400, <<>>)
    ELSE IF Strip(text) = <<>> THEN HttpError(400, <<>>)
    ELSE LET processed == CASE step = 1 -> RemoveIntensifiers(text)
                            [] step = 2 -> FixMisspellings(text)
                            [] OTHER -> text
         IN Resp(200, <<"Processing for step N: ">> \o processed, Str(""), <<>>)

\* what a helper of index.py hands back: a text, or an HTTPException on its way out
Returned(text, called) == [raised |-> FALSE, text |-> text, called |-> called]
Raised500(called) == [raised |-> TRUE, text |-> None, called |-> called]

\* call_gemini of index.py, with the credentials ks
idx_call_gemini(text, ks, oc) ==
    IF "gemini" \notin ks THEN Returned(<<"[Mock] no Gemini key: ">> \o text, <<>>)
    ELSE IF oc.gemini.kind = "ok" THEN Returned(Strip(oc.gemini.body), <<"gemini">>)
    ELSE Raised500(<<"gemini">>)

\* call_trinka of index.py: no status check; .get("corrected_text", text) on the
\* JSON body; any exception is answered with a message wrapped around Gemini's text
idx_call_trinka(text, ks, oc) ==
    IF "trinka" \notin ks THEN idx_call_gemini(text, ks, oc)
    ELSE IF oc.trinka.kind = "ok" THEN Returned(oc.trinka.body, <<"trinka">>)
    ELSE IF oc.trinka.kind \in {"nofield", "status"} THEN Returned(text, <<"trinka">>)
    ELSE LET g == idx_call_gemini(text, ks, oc)
         IN IF g.raised THEN Raised500(<<"trinka">> \o g.called)
            ELSE Returned(<<"[Trinka Error] (Gemini Fallback: ">> \o g.text \o <<")">>,
                          <<"trinka">> \o g.called)

\* call_languagetool of index.py: the answer is not read; the text comes back
\* inside a fixed message
idx_call_languagetool(text, ks, oc) ==
    IF "languagetool" \notin ks THEN idx_call_gemini(text, ks, oc)
    ELSE IF oc.lt.kind = "exc"
    THEN LET g == idx_call_gemini(text, ks, oc)
         IN [g EXCEPT !.called = <<"languagetool">> \o g.called]
    ELSE Returned(<<"[LT API] ">> \o text \o <<" (apply logic needed)">>, <<"languagetool">>)

\* process_text of index.py
idx_process_text(step, text, ks, oc) ==
    IF ~ValidStep(step) THEN HttpError(400, <<>>)
    ELSE LET r == CASE step = 2 -> idx_call_trinka(text, ks, oc)
                    [] step = 4 -> idx_call_languagetool(text, ks, oc)
                    [] OTHER -> idx_call_gemini(text, ks, oc)
         IN IF r.raised THEN HttpError(500, r.called)
            ELSE Resp(200, r.text, Str(""), r.called)

\* the providers a chain's log names, in order
CalledIn(log) == [i \in 1..Len(log) |-> log[i].provider]

\* process_text of api/index.py: no check of step or text; a step outside 1..6
\* answers with the text as it came
api_process_text(step, text, oc) ==
    IF step \in {1, 3, 5, 6}
    THEN LET run == process_with_ai_run(text, oc.claude, oc.gemini)
         IN Resp(200, run.ret[1], run.ret[2], CalledIn(run.log))
    ELSE IF step \in {2, 4}
    THEN LET run == process_grammar_run(text, oc.trinka, oc.lt)
         IN Resp(200, run.ret[1], run.ret[2], CalledIn(run.log))
    ELSE Resp(200, text, Str(""), <<>>)

\* one chat-completions call of ai_services.py: no status check; the content as it
\* is, or the text on any exception
svc_openai(text, ks, oc) ==
    IF "openai" \notin ks THEN Returned(text, <<>>)
    ELSE IF oc.openai.kind = "ok" THEN Returned(oc.openai.body, <<"openai">>)
    ELSE Returned(text, <<"openai">>)

\* the loop of step4_style_languagetool: the matches in reversed list order, each
\* applied at its own offset
RECURSIVE ApplyReversed(_, _)
ApplyReversed(result, ms) ==
    IF ms = <<>> THEN result
    ELSE LET m == ms[Len(ms)]
             next == IF m.hasRepl
                     THEN SliceTo(result, m.offset) \o m.repl
                          \o SliceFrom(result, m.offset + m.length)
                     ELSE result
         IN ApplyReversed(next, SubSeq(ms, 1, Len(ms) - 1))

\* AIServices.process_step of ai_services.py: processors.get(step), or the text
svc_process_step(step, text, ks, oc) ==
    LET r == CASE step = 1 -> IF "openai" \notin ks
                              THEN Returned(RemoveIntensifiers(text), <<>>)
                              ELSE svc_openai(text, ks, oc)
               [] step = 2 -> Returned(FixMisspellings(text), <<>>)
               [] step = 4 -> IF oc.lt.kind = "exc" THEN Returned(text, <<"languagetool">>)
                              ELSE Returned(ApplyReversed(text, oc.lt.matches),
                                            <<"languagetool">>)
               [] step \in {3, 5, 6} -> svc_openai(text, ks, oc)
               [] OTHER -> Returned(text, <<>>)
    IN Resp(200, r.text, Str(""), r.called)

\* the provider outcomes a request is run against; a provider the step cannot
\* reach keeps the placeholder
NotCalled == Outcome("none", <<>>)
NoOutcomes ==
    [gemini |-> NotCalled, claude |-> NotCalled, trinka |-> NotCalled,
     openai |-> NotCalled, lt |-> GramOk(<<>>)]
ProcAIOutcomes == Failures \cup {Outcome("ok", <<"b">>)}
ProcTrinkaOutcomes == ProcAIOutcomes \cup {NoField}
ProcGramResponses(text) ==
    GramFail \cup {GramOk(<<>>)}
    \cup (IF text = <<>> THEN {} ELSE {GramOk(<<Match(0, 1, TRUE, <<"X">>)>>)})

ProcTexts == SeqsUpTo({"a", " ", "very ", "doeyo"}, MaxProcLen)
Variants == {"main", "index", "api_index", "ai_services"}

\* the credentials each variant reads from the environment
ProcKeys(v) ==
    CASE v = "index" -> SUBSET {"gemini", "trinka", "languagetool"}
      [] v = "api_index" -> SUBSET Providers
      [] v = "ai_services" -> SUBSET {"openai"}
      [] OTHER -> {{}}

ProcInit ==
    /\ pvariant \in Variants
    /\ pstep \in Steps
    /\ ptext \in ProcTexts
    /\ poc = NoOutcomes
    /\ ppc = "call"
    /\ presp = NoResp

ProcArgs == <<pvariant, pstep, ptext>>
ProcOther == <<cfgVars, chainVars, gramVars, diagVars, wfVars, concVars>>

MainProcessText ==
    /\ pvariant = "main" /\ ppc = "call"
    /\ presp' = main_process_text(pstep, ptext)
    /\ ppc' = "done"
    /\ UNCHANGED <<ProcArgs, poc, ProcOther>>

IndexProcessText ==
    /\ pvariant = "index" /\ ppc = "call"
    /\ \E g \in (IF ValidStep(pstep) THEN ProcAIOutcomes ELSE {NotCalled}),
          t \in (IF pstep = 2 THEN ProcTrinkaOutcomes ELSE {NotCalled}),
          l \in (IF pstep = 4 THEN ProcGramResponses(ptext) ELSE {GramOk(<<>>)}) :
          LET oc == [NoOutcomes EXCEPT !.gemini = g, !.trinka = t, !.lt = l]
          IN /\ poc' = oc
             /\ presp' = idx_process_text(pstep, ptext, keys, oc)
    /\ ppc' = "done"
    /\ UNCHANGED <<ProcArgs, ProcOther>>

ApiProcessText ==
    /\ pvariant = "api_index" /\ ppc = "call"
    /\ \E c \in (IF pstep \in {1, 3, 5, 6} THEN ProcAIOutcomes ELSE {NotCalled}),
          g \in (IF pstep \in {1, 3, 5, 6} THEN ProcAIOutcomes ELSE {NotCalled}),
          t \in (IF pstep \in {2, 4} THEN ProcTrinkaOutcomes ELSE {NotCalled}),
          l \in (IF pstep \in {2, 4} THEN ProcGramResponses(ptext) ELSE {GramOk(<<>>)}) :
          LET oc == [NoOutcomes EXCEPT !.claude = c, !.gemini = g, !.trinka = t, !.lt = l]
          IN /\ poc' = oc
             /\ presp' = api_process_text(pstep, ptext, oc)
    /\ ppc' = "done"
    /\ UNCHANGED <<ProcArgs, ProcOther>>

ServicesProcessStep ==
    /\ pvariant = "ai_services" /\ ppc = "call"
    /\ \E o \in (IF pstep \in {1, 3, 5, 6} THEN ProcAIOutcomes ELSE {NotCalled}),
          l \in (IF pstep = 4 THEN ProcGramResponses(ptext) ELSE {GramOk(<<>>)}) :
          LET oc == [NoOutcomes EXCEPT !.openai = o, !.lt = l]
          IN /\ poc' = oc
             /\ presp' = svc_process_step(pstep, ptext, keys, oc)
    /\ ppc' = "done"
    /\ UNCHANGED <<ProcArgs, ProcOther>>

ProcNext == MainProcessText \/ IndexProcessText \/ ApiProcessText \/ ServicesProcessStep

\* ------------------------------------------------------ edit application
\* The three functions that apply the grammar provider's matches to a text, run
\* against the same answers.

\* step4_style_languagetool of ai_services.py, from the answer on: no status check;
\* the matches applied in reversed list order, or the text on any exception
step4_style_languagetool(text, resp) ==
    IF resp.kind = "ok" THEN ApplyReversed(text, resp.matches) ELSE text

EditFunctions == {"call_languagetool", "call_languagetool_free", "step4_style_languagetool"}

\* what the function returns: a pair, or step4's bare text as a 1-tuple
EditReturn(fun, text, resp) ==
    CASE fun = "call_languagetool" -> call_languagetool(text, resp)
      [] fun = "call_languagetool_free" -> call_languagetool_free(text, resp)
      [] OTHER -> <<step4_style_languagetool(text, resp)>>

EditsInit ==
    /\ gfun \in EditFunctions
    /\ gtext \in GramTexts
    /\ gpc = "call"
    /\ gresp = GramOk(<<>>)
    /\ gret = <<>>

EditsOther == <<cfgVars, chainVars, diagVars, wfVars, procVars, concVars>>

\* the provider answers with a list of matches
EditsAnswer ==
    /\ gpc = "call"
    /\ \E ms \in MatchListsFor(gtext) :
          /\ gresp' = GramOk(ms)
          /\ gret' = EditReturn(gfun, gtext, GramOk(ms))
    /\ gpc' = "done"
    /\ UNCHANGED <<gfun, gtext, EditsOther>>

\* the provider call fails
EditsFail ==
    /\ gpc = "call"
    /\ \E f \in GramFail :
          /\ gresp' = f
          /\ gret' = EditReturn(gfun, gtext, f)
    /\ gpc' = "done"
    /\ UNCHANGED <<gfun, gtext, EditsOther>>

EditsNext == EditsAnswer \/ EditsFail

\* ------------------------------------------------------ concurrent requests
\* Each request is handled by one coroutine.  The locals of run_5step_workflow and
\* run_case_workflow (results, current_text) live in the coroutine's own frame; the
\* credentials are module constants and the AIServices singleton is built once and
\* never assigned to afterwards.  A coroutine can be suspended only at an await, so
\* one action runs from one provider call's resumption to the next one's start.
Requests == {"r1", "r2"}

Args(kind, case, text_type, text, step) ==
    [kind |-> kind, case |-> case, text_type |-> text_type, text |-> text, step |-> step]

\* one `await <tool>(...)` followed by results.append(ReviewResult(...)) and, where
\* the code has it, current_text = <output>
StepDesc(fn, step, step_name, tool, notesKind, advance) ==
    [fn |-> fn, step |-> step, step_name |-> step_name, tool |-> tool,
     notesKind |-> notesKind, advance |-> advance]

\* the statements of run_5step_workflow, in order
GenericPlan(text_type) ==
    <<StepDesc("call_languagetool", 1, "remove errors", "LanguageTool", "found", TRUE),
      StepDesc("simulate_hemingway", 2, "levelling", "Hemingway", "grade", TRUE),
      IF text_type = "TYPE_A"
      THEN StepDesc("simulate_quillbot", 3, "context review", "QuillBot (Standard)", "", TRUE)
      ELSE StepDesc("simulate_wordtune", 3, "context review", "Wordtune (Casual+Spices)",
                    "", TRUE),
      StepDesc("simulate_prowritingaid", 4, "style", "ProWritingAid", "issues", TRUE),
      StepDesc("run_13point_check", 5, "re-review (13-Point)", "13-Point Checklist",
               "checklist", FALSE)>>

\* the statements of the branch of run_case_workflow a case enters, in order
CasePlan(c) ==
    CASE c = "CASE_A" ->
            <<StepDesc("simulate_hemingway", 1, "levelling", "Hemingway", "notes", TRUE),
              StepDesc("simulate_quillbot", 2, "simplify", "QuillBot (Simple)", "", TRUE)>>
      [] c = "CASE_B" ->
            <<StepDesc("simulate_wordtune", 1, "tone", "Wordtune (Casual+Spices)", "", TRUE),
              StepDesc("call_languagetool", 2, "grammar check", "LanguageTool", "", FALSE)>>
      [] c = "CASE_C" ->
            <<StepDesc("simulate_quillbot", 1, "restructure", "QuillBot (Freeze Words)",
                       "", TRUE),
              StepDesc("simulate_prowritingaid", 2, "style", "ProWritingAid", "issues", FALSE)>>
      [] c = "CASE_D" ->
            <<StepDesc("call_languagetool", 1, "mechanical errors", "LanguageTool",
                       "native speaker review", FALSE)>>
      [] OTHER -> GenericPlan(DefaultTextType)

Plan(args) ==
    CASE args.kind = "generic" -> GenericPlan(args.text_type)
      [] args.kind = "case" -> CasePlan(args.case)
      [] OTHER -> <<>>

\* the providers a step's call goes through, in the order it tries them
StepProviders(desc) ==
    IF desc.fn = "call_languagetool" THEN <<"languagetool">>
    ELSE SelectSeq(<<"claude", "gemini">>, LAMBDA p : p \in keys)

\* what call_ai returns given the response that ended it: the accepting provider's
\* stripped text, or the text argument
ChainText(text, resp) == IF resp.kind = "ok" THEN Strip(resp.body) ELSE text

\* the ReviewResult a step appends, given the response that ended its call
StepResult(desc, current, resp) ==
    LET gram == call_languagetool(current, resp)
        out == ChainText(current, resp)
        hem == simulate_hemingway(current, out)
    IN CASE desc.fn = "call_languagetool" ->
                ReviewResult(desc.step, desc.step_name, desc.tool, current, gram[1], gram[2],
                             NoScore, GrammarNotes(desc.notesKind, gram[2]))
         [] desc.fn = "simulate_hemingway" ->
                ReviewResult(desc.step, desc.step_name, desc.tool, current, hem.simplified,
                             <<>>, Score(hem.grade), Notes(desc.notesKind, hem.grade))
         [] desc.fn = "simulate_prowritingaid" ->
                ReviewResult(desc.step, desc.step_name, desc.tool, current,
                             simulate_prowritingaid(current, out), <<>>, NoScore,
                             Notes("issues", 0))
         [] desc.fn = "run_13point_check" ->
                ReviewResult(desc.step, desc.step_name, desc.tool, current,
                             run_13point_check(current, out), <<>>, NoScore,
                             Notes("checklist", 0))
         [] OTHER ->
                ReviewResult(desc.step, desc.step_name, desc.tool, current, out, <<>>,
                             NoScore, NoNotes)

\* a frame: the step the coroutine is at, its locals, the provider calls it has
\* issued that have not resolved, the providers the current step has tried, the
\* response that ended each finished step, and the returned value once it returned
Frame(pc, appended, current, inflight, tried, seen, ret) ==
    [pc |-> pc, results |-> appended, current_text |-> current, inflight |-> inflight,
     tried |-> tried, seen |-> seen, ret |-> ret]
NewFrame(text) == Frame(1, <<>>, text, <<>>, <<>>, <<>>, <<>>)

CurrentTextShared(r) == rframe[CHOOSE q \in DOMAIN rframe : TRUE].current_text

\* current_text, a local of the request's own coroutine
CurrentTextOf(r) == rframe[r].current_text

NotAwaited(fr) == TRUE

\* `await`: the statement after a call runs only once the call has resolved
Awaited(fr) == fr.inflight = <<>>

AfterFailureRetry(tried, p) == tried

\* `except: pass` and on to the next `if KEY:` block: the failed provider is behind
AfterFailure(tried, p) == Append(tried, p)

\* the frame after the current step's append (and `return results` after the last)
Completed(r, resp) ==
    LET fr == rframe[r]
        plan == Plan(rargs[r])
        desc == plan[fr.pc]
        res == StepResult(desc, CurrentTextOf(r), resp)
        appended == Append(fr.results, res)
    IN Frame(fr.pc + 1, appended,
             IF desc.advance THEN NextCurrent(CurrentTextOf(r), res.processed_text)
             ELSE fr.current_text,
             IF fr.inflight = <<>> THEN <<>> ELSE Tail(fr.inflight),
             <<>>, Append(fr.seen, resp),
             IF fr.pc = Len(plan) THEN <<appended>> ELSE <<>>)

ConcTexts == {<<"a">>}
ConcOutcomes == {Outcome("status", <<>>), Outcome("ok", <<"S:", "b">>)}
ConcGramResponses == {[kind |-> "exc", matches |-> <<>>], GramOk(<<Match(0, 1, TRUE, <<"X">>)>>)}
ConcSteps == {1, 4}
ConcArgs ==
    {Args("generic", "NORMAL", t, x, 0) : t \in TextTypes, x \in ConcTexts}
    \cup {Args("case", c, DefaultTextType, x, 0) : c \in CaseNames, x \in ConcTexts}
    \cup {Args("step", "NORMAL", DefaultTextType, x, s) : s \in ConcSteps, x \in ConcTexts}

ResponsesOf(p) == IF p = "languagetool" THEN ConcGramResponses ELSE ConcOutcomes

ConcInit(R) ==
    /\ rargs \in [R -> ConcArgs]
    /\ rframe = [r \in R |-> NewFrame(rargs[r].text)]

ConcOther == <<cfgVars, chainVars, gramVars, diagVars, wfVars, procVars>>

Running(r) == rargs[r].kind # "step" /\ rframe[r].pc <= Len(Plan(rargs[r]))
CurrentStep(r) == Plan(rargs[r])[rframe[r].pc]

\* the step's call is issued to the next provider of its chain
Call(r) ==
    /\ Running(r)
    /\ Awaited(rframe[r])
    /\ Len(rframe[r].tried) < Len(StepProviders(CurrentStep(r)))
    /\ rframe' = [rframe EXCEPT ![r].inflight =
                      Append(@, [step |-> rframe[r].pc,
                                 provider |-> StepProviders(CurrentStep(r))
                                                 [Len(rframe[r].tried) + 1]])]
    /\ UNCHANGED <<rargs, ConcOther>>

\* the call in flight answers 200: the step appends its result
Succeed(r) ==
    /\ Running(r) /\ rframe[r].inflight # <<>>
    /\ \E resp \in ResponsesOf(Head(rframe[r].inflight).provider) :
          /\ resp.kind = "ok"
          /\ rframe' = [rframe EXCEPT ![r] = Completed(r, resp)]
    /\ UNCHANGED <<rargs, ConcOther>>

\* the call in flight fails and the chain has another provider
FailOver(r) ==
    /\ Running(r) /\ rframe[r].inflight # <<>>
    /\ Len(rframe[r].tried) + 1 < Len(StepProviders(CurrentStep(r)))
    /\ \E resp \in ResponsesOf(Head(rframe[r].inflight).provider) :
          /\ resp.kind # "ok"
          /\ rframe' = [rframe EXCEPT ![r].inflight = Tail(@),
                                      ![r].tried =
                                          AfterFailure(@, Head(rframe[r].inflight).provider)]
    /\ UNCHANGED <<rargs, ConcOther>>

\* the call in flight fails and was the chain's last: the step appends the echo
Exhaust(r) ==
    /\ Running(r) /\ rframe[r].inflight # <<>>
    /\ Len(rframe[r].tried) + 1 >= Len(StepProviders(CurrentStep(r)))
    /\ \E resp \in ResponsesOf(Head(rframe[r].inflight).provider) :
          /\ resp.kind # "ok"
          /\ rframe' = [rframe EXCEPT ![r] = Completed(r, resp)]
    /\ UNCHANGED <<rargs, ConcOther>>

\* no credential is set: call_ai returns the text without calling anything
Echo(r) ==
    /\ Running(r) /\ rframe[r].inflight = <<>>
    /\ StepProviders(CurrentStep(r)) = <<>>
    /\ rframe' = [rframe EXCEPT ![r] = Completed(r, NotCalled)]
    /\ UNCHANGED <<rargs, ConcOther>>

\* ai_services.process_step(text, step) on the singleton
ServiceCall(r) ==
    /\ rargs[r].kind = "step" /\ rframe[r].pc = 1
    /\ \E o \in (IF rargs[r].step = 1 THEN ConcOutcomes ELSE {NotCalled}),
          l \in (IF rargs[r].step = 4 THEN ConcGramResponses ELSE {GramOk(<<>>)}) :
          LET oc == [NoOutcomes EXCEPT !.openai = o, !.lt = l]
          IN rframe' = [rframe EXCEPT ![r].pc = 2, ![r].seen = <<oc>>,
                            ![r].ret = <<svc_process_step(rargs[r].step, rargs[r].text,
                                                          keys, oc).result>>]
    /\ UNCHANGED <<rargs, ConcOther>>

\* whichever request the event loop resumes
SomeCall == \E r \in DOMAIN rargs : Call(r)
SomeSucceed == \E r \in DOMAIN rargs : Succeed(r)
SomeFailOver == \E r \in DOMAIN rargs : FailOver(r)
SomeExhaust == \E r \in DOMAIN rargs : Exhaust(r)
SomeEcho == \E r \in DOMAIN rargs : Echo(r)
SomeServiceCall == \E r \in DOMAIN rargs : ServiceCall(r)

ConcNext ==
    SomeCall \/ SomeSucceed \/ SomeFailOver \/ SomeExhaust \/ SomeEcho \/ SomeServiceCall

\* ------------------------------------------------------ specifications
ChainIdle ==
    /\ chain = "none" /\ cpc = "done" /\ ctext = <<>> /\ attempts = <<>> /\ cret = <<>>

GramIdle ==
    /\ gfun = "none" /\ gpc = "done" /\ gtext = <<>> /\ gresp = GramOk(<<>>) /\ gret = <<>>

DiagIdle ==
    /\ dop = "none" /\ dpc = "done" /\ dtext = <<>> /\ dtarget = "M1" /\ dout = None
    /\ dret = [raised |-> FALSE] /\ dlog = <<>>

WfIdle ==
    /\ wkind = "none" /\ wcase = "NORMAL" /\ wtype = "TYPE_A" /\ winput = <<>>
    /\ wpc = "done" /\ results = <<>> /\ current_text = <<>> /\ wdown = TRUE
    /\ wreq = "none" /\ wcalls = <<>> /\ wouts = <<>>

ProcIdle ==
    /\ pvariant = "none" /\ pstep = 0 /\ ptext = <<>> /\ poc = NoOutcomes /\ ppc = "done"
    /\ presp = NoResp

ConcIdle == rargs = <<>> /\ rframe = <<>>

\* no credentials, automation_bot imported
CfgIdle == keys = {} /\ impl = "bot"

InitGrammar ==
    GramInit /\ ChainIdle /\ DiagIdle /\ WfIdle /\ ProcIdle /\ ConcIdle /\ CfgIdle
SpecGrammar == InitGrammar /\ [][GramNext]_vars

InitChain ==
    /\ ChainInit /\ GramIdle /\ DiagIdle /\ WfIdle /\ ProcIdle /\ ConcIdle
    /\ keys \in SUBSET Providers /\ impl = "bot"
SpecChain == InitChain /\ [][ChainNext]_vars

InitDiag ==
    /\ DiagInit /\ ChainIdle /\ GramIdle /\ WfIdle /\ ProcIdle /\ ConcIdle
    /\ keys \in SUBSET {"claude", "gemini"} /\ impl \in {"bot", "fallback"}
SpecDiag == InitDiag /\ [][DiagNext]_vars

InitWorkflow ==
    /\ WfInit /\ ChainIdle /\ GramIdle /\ DiagIdle /\ ProcIdle /\ ConcIdle
    /\ keys \in {{}, {"claude", "gemini"}} /\ impl \in {"bot", "fallback"}
SpecWorkflow == InitWorkflow /\ [][WfNext]_vars

InitProcess ==
    /\ ProcInit /\ ChainIdle /\ GramIdle /\ DiagIdle /\ WfIdle /\ ConcIdle
    /\ keys \in ProcKeys(pvariant) /\ impl = "bot"
SpecProcess == InitProcess /\ [][ProcNext]_vars

InitEdits == EditsInit /\ ChainIdle /\ DiagIdle /\ WfIdle /\ ProcIdle /\ ConcIdle /\ CfgIdle
SpecEdits == InitEdits /\ [][EditsNext]_vars

\* two requests at a time
InitConcurrent ==
    /\ ConcInit(Requests) /\ ChainIdle /\ GramIdle /\ DiagIdle /\ WfIdle /\ ProcIdle
    /\ keys \in {{}, {"claude", "gemini", "openai"}} /\ impl = "bot"
SpecConcurrent == InitConcurrent /\ [][ConcNext]_vars

\* one request; the event loop resumes a coroutine whose awaited call has resolved
\* and every provider call resolves within its client's timeout
InitRun ==
    /\ ConcInit({"r1"}) /\ ChainIdle /\ GramIdle /\ DiagIdle /\ WfIdle /\ ProcIdle
    /\ keys \in {{}, {"claude", "gemini", "openai"}} /\ impl = "bot"
SpecRun == InitRun /\ [][ConcNext]_vars /\ WF_vars(ConcNext)

\* ------------------------------------------------------------- claims
Range(f) == {f[i] : i \in DOMAIN f}

DeclaredOrder(c) ==
    IF c = "process_grammar" THEN <<"trinka", "languagetool">> ELSE <<"claude", "gemini">>

PositionIn(order, p) == CHOOSE i \in DOMAIN order : order[i] = p

LabelOf(p) ==
    CASE p = "claude" -> LabelClaude
      [] p = "gemini" -> LabelGemini
      [] p = "trinka" -> LabelTrinka
      [] p = "languagetool" -> LabelLTFree

SentinelOf(c) == IF c = "process_grammar" THEN LabelNoGrammar ELSE LabelNoAI

\* C1: in every finished run of a fallback chain the providers were called in the
\* declared order, each at most once; a provider was called only after every
\* provider called before it had failed; and the chain returned the output of the
\* first provider that answered successfully, under that provider's label (where
\* the chain returns a label).
C1_InOrderFirstSuccessWins ==
    cpc = "done" /\ chain # "none" =>
        LET order == DeclaredOrder(chain)
            n == Len(attempts)
        IN /\ \A i \in 1..n : attempts[i].provider \in Range(order)
           /\ \A i \in 1..n : \A j \in 1..n :
                 i < j => PositionIn(order, attempts[i].provider)
                              < PositionIn(order, attempts[j].provider)
           /\ \A i \in 1..n : \A j \in 1..n : i < j => attempts[i].kind # "ok"
           /\ \A i \in 1..n :
                 (attempts[i].kind = "ok" /\ \A j \in 1..(i - 1) : attempts[j].kind # "ok")
                     => /\ cret[1] = attempts[i].out
                        /\ Len(cret) = 2 => cret[2] = LabelOf(attempts[i].provider)

\* every provider of the chain is without credential or was called and failed
AllProvidersFailed ==
    \A p \in Range(DeclaredOrder(chain)) :
        \/ p \in Providers /\ p \notin keys
        \/ \E i \in 1..Len(attempts) :
              attempts[i].provider = p /\ attempts[i].kind \in FailKinds

\* C2: when every provider of a fallback chain has failed, the chain returns the
\* pair (the input text unchanged, the chain's 'no provider available' label).
C2_AllFailedEchoWithSentinel ==
    cpc = "done" /\ chain # "none" /\ AllProvidersFailed =>
        /\ cret[1] = ctext
        /\ Len(cret) = 2
        /\ cret[2] = SentinelOf(chain)

AllCarryReplacement(ms) == \A i \in 1..Len(ms) : ms[i].hasRepl

NonOverlapping(ms) ==
    \A i \in 1..Len(ms) : \A j \in 1..Len(ms) :
        i # j => \/ ms[i].offset + ms[i].length <= ms[j].offset
                 \/ ms[j].offset + ms[j].length <= ms[i].offset

\* at most one match is an insertion (an empty span) at any one offset, so that
\* what "replaced at once" means does not depend on an order of insertions
OneInsertionPerOffset(ms) ==
    \A i \in 1..Len(ms) : \A j \in 1..Len(ms) :
        (i # j /\ ms[i].length = 0 /\ ms[j].length = 0) => ms[i].offset # ms[j].offset

DistinctOffsets(ms) ==
    \A i \in 1..Len(ms) : \A j \in 1..Len(ms) : i # j => ms[i].offset # ms[j].offset

\* the text inserted at position i: the replacements of the empty spans at i
RECURSIVE InsertionsAt(_, _)
InsertionsAt(ms, i) ==
    IF ms = <<>> THEN <<>>
    ELSE (IF Head(ms).offset = i /\ Head(ms).length = 0 THEN Head(ms).repl ELSE <<>>)
         \o InsertionsAt(Tail(ms), i)

SpanStartsAt(ms, i) == \E k \in 1..Len(ms) : ms[k].offset = i /\ ms[k].length > 0

\* every matched span of text replaced at once: position by position over the
\* original text, an insertion point yields its replacement before the character,
\* a span's first position yields its replacement, the rest of the span nothing,
\* any other position its own character
RECURSIVE ReplaceFrom(_, _, _)
ReplaceFrom(text, ms, i) ==
    IF i > Len(text) THEN <<>>
    ELSE InsertionsAt(ms, i) \o
         (IF i = Len(text) THEN <<>>
          ELSE IF SpanStartsAt(ms, i)
          THEN LET k == CHOOSE k \in 1..Len(ms) : ms[k].offset = i /\ ms[k].length > 0
               IN ms[k].repl \o ReplaceFrom(text, ms, i + ms[k].length)
          ELSE <<text[i + 1]>> \o ReplaceFrom(text, ms, i + 1))

SimultaneousReplacement(text, ms) == ReplaceFrom(text, ms, 0)

\* C7 as stated: for pairwise non-overlapping in-range matches that all carry a
\* replacement, listed in any order, the service returns the original text with
\* every matched span replaced by its replacement at once.
C7_AnyNonOverlappingMatches ==
    (/\ gpc = "done" /\ gresp.kind = "ok"
     /\ AllCarryReplacement(gresp.matches) /\ NonOverlapping(gresp.matches)
     /\ OneInsertionPerOffset(gresp.matches))
        => gret[1] = SimultaneousReplacement(gtext, gresp.matches)

\* C7: for pairwise non-overlapping in-range matches at pairwise distinct offsets
\* that all carry a replacement, listed in any order, the service returns the
\* original text with every matched span replaced by its replacement at once.
C7_SimultaneousReplacement ==
    (/\ gpc = "done" /\ gresp.kind = "ok"
     /\ AllCarryReplacement(gresp.matches) /\ NonOverlapping(gresp.matches)
     /\ DistinctOffsets(gresp.matches))
        => gret[1] = SimultaneousReplacement(gtext, gresp.matches)

\* two matches listed in descending offset order, the one at the lower offset
\* changing the length of the text
C7_Witness ==
    /\ gpc = "done" /\ gresp.kind = "ok" /\ Len(gresp.matches) = 2
    /\ AllCarryReplacement(gresp.matches) /\ NonOverlapping(gresp.matches)
    /\ gresp.matches[1].offset > gresp.matches[2].offset
    /\ Len(gresp.matches[2].repl) # gresp.matches[2].length
    /\ gret[1] = <<"X", "X", "b", "X", "d">>

\* C8: a successful answer with zero matches returns the pair (the input text, the
\* empty edit list).
C8_ZeroMatchesUnchangedNoEdits ==
    gpc = "done" /\ gresp = GramOk(<<>>) => gret = <<gtext, <<>>>>

\* C3: a finished generic run on a non-empty text during which no provider call
\* succeeded holds exactly 5 ReviewResults, each with processed_text equal to its
\* own original_text.
C3_EchoThroughUnderOutage ==
    (wkind = "generic" /\ wpc = "done" /\ wdown /\ winput # <<>>) =>
        /\ Len(results) = 5
        /\ \A k \in 1..Len(results) : results[k].processed_text = results[k].original_text

\* C4: neither diagnose nor recycling_check, in whichever implementation the request
\* layer is bound to, ends with an exception, whatever the providers do (the two
\* workflow operations have no raising statement outside the provider calls).
C4_OperationsNeverRaise ==
    (dpc = "done" /\ dop \in {"diagnose_text", "recycling_check"}) => ~dret.raised

\* the step count of the case table
StepCount(c) ==
    CASE c = "CASE_A" -> 2
      [] c = "CASE_B" -> 2
      [] c = "CASE_C" -> 2
      [] c = "CASE_D" -> 1
      [] c = "NORMAL" -> 5

\* C5: a finished run_case_workflow(text, case) holds exactly the number of
\* ReviewResults the case table gives for the case, whichever implementation the
\* request layer is bound to.
C5_CaseStepCount ==
    (wkind = "case" /\ wpc = "done") => Len(results) = StepCount(wcase)

\* C6: at every point of every workflow run, the first ReviewResult's original_text
\* is the run's input and every later one's original_text is the processed_text of
\* the ReviewResult before it.
C6_LinearThreading ==
    \A k \in 1..Len(results) :
        results[k].original_text =
            IF k = 1 THEN winput ELSE results[k - 1].processed_text

\* a finished five-step run of automation_bot in which the grammar step and the
\* paraphrase step both changed the text
C6_Witness ==
    /\ impl = "bot" /\ wpc = "done" /\ Len(results) = 5
    /\ results[1].processed_text # winput
    /\ results[3].processed_text # results[3].original_text
    /\ results[4].original_text = results[3].processed_text

\* C9: diagnose_text of automation_bot ends with a DiagnosisResult, never with an
\* exception, whatever the generative chain hands it.
C9_DiagnoseReturnsResult ==
    (impl = "bot" /\ dop = "diagnose_text" /\ dpc = "done") => ~dret.raised

\* the output handed to the parser holds no JSON object that parses
NoJsonObject(out) ==
    \/ out = None
    \/ ~HasBlock(out)
    \/ ~json_loads(FirstBlock(out)).ok

\* C10: when the provider output holds no parseable JSON object, diagnose returns
\* case Normal, grade_level "M1", readability_score 50 and no issues, whichever
\* implementation the request layer is bound to.
C10_DefaultDiagnosis ==
    (dop = "diagnose_text" /\ dpc = "done" /\ NoJsonObject(dout)) =>
        /\ ~dret.raised
        /\ dret.case = "NORMAL"
        /\ dret.grade_level = VStr("M1")
        /\ dret.readability_score = 50
        /\ dret.issues_found = VList(<<>>)

\* C15: a case-workflow request whose case identifier is none of the supported
\* ones runs no workflow step and calls nothing.
C15_UnsupportedCaseRunsNothing ==
    (wkind = "case" /\ wreq \notin CaseNames) => (results = <<>> /\ wcalls = <<>>)

\* the labels that mean 'no provider available'
Sentinels == {LabelNoAI, LabelNoGrammar}

\* C16: in a finished run during which no provider call succeeded, so that every
\* step echoed its input, every ReviewResult's tool_used is a 'no provider
\* available' sentinel.
C16_ToolUsedNamesProducer ==
    (wpc = "done" /\ wdown /\ wkind # "none") =>
        \A k \in 1..Len(results) : results[k].tool_used \in Sentinels

\* the calls the case table declares, in order; the generic pipeline's third
\* call is one of the two paraphrase instructions
DeclaredPipelines(kind, c) ==
    IF kind = "case" /\ c = "CASE_A" THEN {<<"simulate_hemingway", "quillbot:simple">>}
    ELSE IF kind = "case" /\ c = "CASE_B" THEN {<<"wordtune:casual_spices", "call_languagetool">>}
    ELSE IF kind = "case" /\ c = "CASE_C" THEN {<<"quillbot:freeze_words", "simulate_prowritingaid">>}
    ELSE IF kind = "case" /\ c = "CASE_D" THEN {<<"call_languagetool">>}
    ELSE {<<"call_languagetool", "simulate_hemingway", p, "simulate_prowritingaid",
            "run_13point_check">> : p \in {"quillbot:standard", "wordtune:casual_spices"}}

IsPrefix(a, b) == Len(a) <= Len(b) /\ SubSeq(b, 1, Len(a)) = a

C18_MechanicalErrorFlagged ==
    (impl = "bot" /\ wkind = "case" /\ wcase = "CASE_D" /\ wpc = "done") =>
        /\ wcalls = <<"call_languagetool">>
        /\ Len(results) = 1
        /\ results[1].notes = Notes("native speaker review", 0)

\* a finished MechanicalError run whose grammar provider failed, so that no change
\* was made
C18_Witness ==
    /\ impl = "bot" /\ wkind = "case" /\ wcase = "CASE_D" /\ wpc = "done"
    /\ wdown /\ results[1].changes = <<>>
    /\ results[1].notes = Notes("native speaker review", 0)

\* the paraphrase call the generic pipeline declares for a TextType
ParaphraseFor(t) == IF t = "TYPE_A" THEN "quillbot:standard" ELSE "wordtune:casual_spices"

\* C19: run_case_workflow(text, NORMAL) of automation_bot on a text of a TextType
\* makes, at step 3, the paraphrase call the generic pipeline makes for that
\* TextType.
C19_NormalCaseIsGenericPipeline ==
    (impl = "bot" /\ wkind = "case" /\ wcase = "NORMAL" /\ Len(wcalls) >= 3) =>
        wcalls[3] = ParaphraseFor(wtype)

\* C20: the TextType a diagnosis of automation_bot returns for a text is the
\* TextType the workflow uses for it when the caller supplies none.
C20_DiagnosedTypeIsWorkflowDefault ==
    (impl = "bot" /\ dop = "diagnose_text" /\ dpc = "done" /\ ~dret.raised) =>
        dret.text_type = DefaultTextType

\* C11: no process-text request is answered with a server error, whatever the
\* providers do.
C11_NoProviderFailureReachesCaller ==
    (ppc = "done" /\ pvariant # "none") => presp.status # 500

\* how the call to provider p ended during the request
OutcomeKind(p) == IF p = "languagetool" THEN poc.lt.kind ELSE poc[p].kind

\* provider p had its credential, was called and failed
CalledAndFailed(p) ==
    /\ p \in keys
    /\ p \in Range(presp.called)
    /\ OutcomeKind(p) \in FailKinds

\* the response of the same request, against the same providers, with the
\* credential of p absent
WithoutCredential(p) ==
    IF pvariant = "index" THEN idx_process_text(pstep, ptext, keys \ {p}, poc)
    ELSE svc_process_step(pstep, ptext, keys \ {p}, poc)

\* C12: when a provider that has its credential fails during a process-text request
\* of index.py or ai_services.py, the response has the status and the result text of
\* the same request served with that credential absent.
C12_AbsentCredentialSameAsError ==
    (ppc = "done" /\ pvariant \in {"index", "ai_services"}) =>
        \A p \in keys :
            CalledAndFailed(p) =>
                /\ presp.status = WithoutCredential(p).status
                /\ presp.result = WithoutCredential(p).result

\* the texts the providers called during the request answered with: a generative
\* provider's text, as it came or stripped, and the grammar provider's matches
\* applied to the request's text
ProviderOutputs ==
    UNION {IF OutcomeKind(p) = "ok"
           THEN (IF p = "languagetool"
                 THEN {ApplyMatches(ptext, poc.lt.matches).corrected}
                 ELSE {poc[p].body, Strip(poc[p].body)})
           ELSE {} : p \in Range(presp.called)}

\* C13: the result text of a process-text request that was answered is the
\* request's text or the output of a provider called during the request.
C13_ProviderOutputOrOriginal ==
    (ppc = "done" /\ pvariant # "none" /\ presp.status = 200) =>
        (presp.result = ptext \/ presp.result \in ProviderOutputs)

\* C14: a process-text request whose step is outside 1..6 or whose text is empty or
\* whitespace is answered with status 400, no provider having been called.
C14_InvalidRequestRejected ==
    (ppc = "done" /\ pvariant # "none" /\ (~ValidStep(pstep) \/ Strip(ptext) = <<>>)) =>
        (presp.status = 400 /\ presp.called = <<>>)


\* every provider the chain called for the operation failed
ProviderCallsFailed == dlog # <<>> /\ ~Served(dlog)

\* C21: when every provider call recycling_check of automation_bot made failed, or
\* the output handed to its parser holds no parseable JSON object, it returns
\* recommendation "keep", is_appropriate true and reason "Unable to analyze", and
\* does not raise.
C21_RecyclingDefaultOnFailure ==
    (impl = "bot" /\ dop = "recycling_check" /\ dpc = "done"
        /\ (ProviderCallsFailed \/ NoJsonObject(dout))) =>
        /\ ~dret.raised
        /\ dret.data["recommendation"] = VStr("keep")
        /\ dret.data["is_appropriate"] = VBool("true")
        /\ dret.data["reason"] = VStr("Unable to analyze")

RecyclingFields == {"current_level", "target_level", "is_appropriate", "recommendation", "reason"}
Recommendations == {"keep", "move_up", "move_down"}

\* C22: every result of recycling_check, in whichever implementation the request
\* layer is bound to, holds all five of current_level, target_level, is_appropriate,
\* recommendation and reason, and its recommendation is keep, move_up or move_down.
C22_RecyclingResultComplete ==
    (dop = "recycling_check" /\ dpc = "done") =>
        /\ ~dret.raised
        /\ \A f \in RecyclingFields : dret.data[f] # Absent
        /\ dret.data["recommendation"].t = "str"
        /\ dret.data["recommendation"].s \in Recommendations

\* C23: whenever the current_level of a recycling_check result equals the requested
\* target grade, its recommendation is keep.
C23_SameLevelKeeps ==
    (dop = "recycling_check" /\ dpc = "done" /\ ~dret.raised
        /\ dret.data["current_level"] = VStr(dtarget)) =>
        dret.data["recommendation"] = VStr("keep")


\* the entry of a recommended_workflow list that a ReviewResult's tool_used stands for
WorkflowNameOf(tool) ==
    CASE tool = Str("QuillBot (Simple)") -> "QuillBot(Simple)"
      [] tool = Str("QuillBot (Freeze Words)") -> "QuillBot(FreezeWords)"
      [] tool = Str("QuillBot (Standard)") -> "QuillBot"
      [] tool = Str("Wordtune (Casual+Spices)") -> "Wordtune(Casual)"
      [] tool = Str("13-Point Checklist") -> "Review"
      [] OTHER -> tool[1]

ExecutedWorkflow == [k \in 1..Len(results) |-> WorkflowNameOf(results[k].tool_used)]

\* C24: the steps a finished run_case_workflow of automation_bot executed for a case
\* are, in order and number, the steps the recommended_workflow of diagnose_text
\* names for that case.
C24_RecommendedWorkflowIsExecuted ==
    (impl = "bot" /\ wkind = "case" /\ wpc = "done") =>
        ExecutedWorkflow = RecommendedWorkflow(wcase)


\* the request run alone: its steps one after the other, each given the response
\* that ended it in the concurrent run
RECURSIVE Replay(_, _, _, _)
Replay(plan, k, current, seen) ==
    IF k > Len(plan) THEN <<>>
    ELSE LET res == StepResult(plan[k], current, seen[k])
         IN <<res>> \o Replay(plan, k + 1,
                              IF plan[k].advance THEN res.processed_text ELSE current, seen)

RunAlone(args, seen) ==
    IF args.kind = "step"
    THEN svc_process_step(args.step, args.text, keys, seen[1]).result
    ELSE Replay(Plan(args), 1, args.text, seen)

HasReturned(r) == rframe[r].ret # <<>>

\* a step of one request leaves every other request's frame, every request's
\* arguments and the credentials as they were
TouchesOwnFrameOnly ==
    /\ keys' = keys /\ rargs' = rargs
    /\ \A r \in DOMAIN rframe :
          rframe'[r] # rframe[r] => \A q \in DOMAIN rframe \ {r} : rframe'[q] = rframe[q]

C26_StepsStrictlySequential ==
    \A r \in DOMAIN rargs :
        /\ Len(rframe[r].inflight) <= 1
        /\ \A i \in 1..Len(rframe[r].inflight) :
              /\ rframe[r].inflight[i].step = Len(rframe[r].results) + 1
              /\ rframe[r].inflight[i].step = rframe[r].pc

\* the second provider of step 4's chain is in flight after the first one failed
C26_Witness ==
    \E r \in DOMAIN rargs :
        /\ rargs[r].kind = "generic" /\ rframe[r].pc = 4
        /\ rframe[r].tried = <<"claude">>
        /\ rframe[r].inflight = <<[step |-> 4, provider |-> "gemini"]>>
        /\ Len(rframe[r].results) = 3

\* the results list only grows, by one ReviewResult at a time, and what it held stays
AppendOnly ==
    \/ results' = results
    \/ /\ Len(results') = Len(results) + 1
       /\ SubSeq(results', 1, Len(results)) = results

\* C29: in every workflow run each step appends exactly one ReviewResult and leaves
\* the earlier ones as they are, and at every point the step fields of the sequence
\* are 1, 2, ..., n in order.
C29_OneResultPerStepInOrder ==
    /\ [](\A k \in 1..Len(results) : results[k].step = k)
    /\ [][AppendOnly /\ (wcalls' # wcalls => Len(results') = Len(results) + 1)]_vars

\* a finished Too-Formal case run whose second step, the grammar check, changed the text
C29_Witness ==
    /\ wpc = "done" /\ wkind = "case" /\ wcase = "CASE_B" /\ impl = "bot"
    /\ Len(results) = 2 /\ results[2].step = 2
    /\ results[2].processed_text # results[2].original_text

NoRepeat(seq) == \A i, j \in 1..Len(seq) : i # j => seq[i] # seq[j]

\* the terminal state: every step of the selected sequence completed, and returned
AllStepsCompleted(r) ==
    /\ HasReturned(r)
    /\ rargs[r].kind # "step" => Len(rframe[r].results) = Len(Plan(rargs[r]))

\* C30: provided every provider call resolves and the coroutine is resumed, every
\* run reaches the state where all steps of its sequence are completed and stays
\* there; within a step every provider of the chain is attempted at most once, and
\* no step is executed twice.
C30_RunTerminates ==
    /\ <>[](\A r \in DOMAIN rargs : AllStepsCompleted(r))
    /\ [](\A r \in DOMAIN rargs :
            /\ NoRepeat(rframe[r].tried)
            /\ Len(rframe[r].tried) + Len(rframe[r].inflight)
                   <= IF Running(r) THEN Len(StepProviders(CurrentStep(r))) ELSE 0
            /\ \A i \in 1..Len(rframe[r].inflight) :
                  \A j \in 1..Len(rframe[r].tried) :
                      rframe[r].inflight[i].provider # rframe[r].tried[j]
            /\ NoRepeat([k \in 1..Len(rframe[r].results) |-> rframe[r].results[k].step]))

\* a five-step run has returned; one of its steps was echoed after both providers
\* failed and another was answered by a provider
C30_Witness ==
    \E r \in DOMAIN rargs :
        /\ rargs[r].kind = "generic" /\ AllStepsCompleted(r)
        /\ keys = {"claude", "gemini", "openai"}
        /\ rframe[r].seen[2].kind # "ok"
        /\ rframe[r].seen[3].kind = "ok"


\* what the called function returns for an answer
GrammarReturn(fun, text, resp) ==
    IF fun = "call_languagetool" THEN call_languagetool(text, resp)
    ELSE call_languagetool_free(text, resp)

\* C27: when the grammar provider call fails outright, what the Grammar Correction
\* Service returns differs from what it returns for a successful check of the same
\* text that found zero matches.
C27_FailureDistinctFromZeroMatches ==
    (gpc = "done" /\ gresp \in GramFail) =>
        gret # GrammarReturn(gfun, gtext, GramOk(<<>>))

\* the matches that carry a replacement, in the order reported
WithReplacement(ms) == SelectSeq(ms, LAMBDA m : m.hasRepl)

\* C28: the result of a call whose answer holds matches without a replacement is the
\* result of the same call had those matches not been reported: the text, the edit
\* list and thereby the offset adjustment the later matches are applied with.
C28_NoReplacementIsSkipped ==
    (gpc = "done" /\ gresp.kind = "ok") =>
        gret = GrammarReturn(gfun, gtext, GramOk(WithReplacement(gresp.matches)))

\* a match without a replacement over a non-empty span, reported together with a
\* later match that was applied
C28_Witness ==
    /\ gpc = "done" /\ gresp.kind = "ok" /\ gfun = "call_languagetool"
    /\ \E i, j \in 1..Len(gresp.matches) :
          /\ ~gresp.matches[i].hasRepl /\ gresp.matches[i].length > 0
          /\ gresp.matches[j].hasRepl
          /\ gresp.matches[i].offset + gresp.matches[i].length <= gresp.matches[j].offset
    /\ gret[1] # gtext /\ Len(gret[2]) = 1


\* C31: for every text and every list of pairwise non-overlapping in-range matches,
\* in whatever order the provider lists them, call_languagetool,
\* call_languagetool_free and step4_style_languagetool return the same corrected
\* text.
C31_ThreeApplicationsAgree ==
    (gpc = "done" /\ gresp.kind = "ok" /\ NonOverlapping(gresp.matches)) =>
        \A f \in EditFunctions : EditReturn(f, gtext, gresp)[1] = gret[1]


\* one Edit per match that carries a replacement, in ascending offset order, each
\* with the span of the original text and the match's first replacement
ExpectedEdits(text, ms) ==
    LET applied == SortedByOffset(WithReplacement(ms))
    IN [k \in 1..Len(applied) |->
           [original |-> SubSeq(text, applied[k].offset + 1,
                                applied[k].offset + applied[k].length),
            corrected |-> applied[k].repl]]

\* C32 as stated: for pairwise non-overlapping in-range matches, the changelog
\* call_languagetool returns holds exactly one Edit per match that carries a
\* replacement, in ascending offset order, whose original is the substring of the
\* original text at [offset, offset + length) and whose corrected is the match's
\* first replacement.
C32_ChangelogRecordsOriginalSpans ==
    (gfun = "call_languagetool" /\ gpc = "done" /\ gresp.kind = "ok"
        /\ NonOverlapping(gresp.matches)) =>
        gret[2] = ExpectedEdits(gtext, gresp.matches)

\* C32: for pairwise non-overlapping in-range matches at pairwise distinct offsets,
\* the changelog call_languagetool returns holds exactly one Edit per match that
\* carries a replacement, in ascending offset order, whose original is the substring
\* of the original text at [offset, offset + length) and whose corrected is the
\* match's first replacement.
C32_ChangelogOfDistinctOffsets ==
    (gfun = "call_languagetool" /\ gpc = "done" /\ gresp.kind = "ok"
        /\ NonOverlapping(gresp.matches) /\ DistinctOffsets(gresp.matches)) =>
        gret[2] = ExpectedEdits(gtext, gresp.matches)

\* two applied matches, the first changing the length of the text, so that the second
\* span is read from the corrected text at a shifted position
C32_Witness ==
    /\ gfun = "call_languagetool" /\ gpc = "done" /\ gresp.kind = "ok"
    /\ NonOverlapping(gresp.matches) /\ DistinctOffsets(gresp.matches)
    /\ Len(gret[2]) = 2
    /\ Len(gret[2][1].corrected) # Len(gret[2][1].original)
    /\ gret[2][2].original # <<>>
    /\ gret[2][2].original # gret[2][1].original

\* the loop state after the first k matches of the sorted list
LoopStateAfter(text, ms, k) ==
    ApplyLoop([corrected |-> text, changes |-> <<>>, adj |-> 0],
              SubSeq(SortedByOffset(ms), 1, k))

RECURSIVE SumOfGrowth(_)
SumOfGrowth(ms) ==
    IF ms = <<>> THEN 0
    ELSE (IF Head(ms).hasRepl THEN Len(Head(ms).repl) - Head(ms).length ELSE 0)
         + SumOfGrowth(Tail(ms))

\* C34: for pairwise non-overlapping in-range matches, after every match of the loop
\* the running offset adjustment is len(corrected so far) - len(original), and the
\* returned text is as long as the original plus the sum over the applied matches of
\* len(replacement) - length.
C34_AdjustmentTracksLength ==
    (gpc = "done" /\ gresp.kind = "ok" /\ NonOverlapping(gresp.matches)) =>
        /\ \A k \in 0..Len(gresp.matches) :
              LoopStateAfter(gtext, gresp.matches, k).adj
                  = Len(LoopStateAfter(gtext, gresp.matches, k).corrected) - Len(gtext)
        /\ Len(gret[1]) = Len(gtext) + SumOfGrowth(gresp.matches)

\* a match that shortens the text and a later one that lengthens it, both applied
C34_Witness ==
    /\ gpc = "done" /\ gresp.kind = "ok" /\ NonOverlapping(gresp.matches)
    /\ Len(gresp.matches) = 2 /\ AllCarryReplacement(gresp.matches)
    /\ LoopStateAfter(gtext, gresp.matches, 1).adj < 0
    /\ LoopStateAfter(gtext, gresp.matches, 2).adj > 0
    /\ gret[1] # gtext

\* the log of provider calls the chain named c leaves for the outcomes ocC and ocG
ChainLog(c, text, ocC, ocG) ==
    IF c = "call_ai" THEN call_ai_run(text, ocC, ocG).log
    ELSE process_with_ai_run(text, ocC, ocG).log

\* C33: for the same provider outcomes, call_ai and process_with_ai return the same
\* text, a first provider that answers successfully with the empty string included.
C33_BothChainsReturnSameText ==
    (cpc = "done" /\ chain \in {"call_ai", "process_with_ai"}) =>
        \A ocC \in AIOutcomes : \A ocG \in AIOutcomes :
            ChainLog(chain, ctext, ocC, ocG) = attempts =>
                call_ai(ctext, ocC, ocG) = process_with_ai(ctext, ocC, ocG)[1]

\* the steps that grade readability: step 2 of run_5step_workflow, step 1 of the
\* CASE_A branch of run_case_workflow
\* (a case without a branch of its own runs run_5step_workflow)
GradingStep(i) ==
    IF wkind = "case" /\ wcase = "CASE_A" THEN results[i].step = 1
    ELSE IF wkind = "case" /\ wcase \in {"CASE_B", "CASE_C", "CASE_D"} THEN FALSE
    ELSE results[i].step = 2

\* C35: in every workflow result sequence, score is set on exactly the grading steps
\* (step 2 of the generic pipeline, step 1 of the too-difficult pipeline); there it is
\* the grade parsed from the provider output, or 6 when none can be parsed, which
\* includes the step no provider served.
C35_ScoreOnGradingStepsOnly ==
    \A i \in 1..Len(results) :
        /\ (results[i].score # NoScore) <=> GradingStep(i)
        /\ (GradingStep(i) /\ i <= Len(wouts)) =>
               results[i].score = IF wouts[i].served
                                  THEN Score(HemingwayGrade(wouts[i].out))
                                  ELSE Score(DefaultGrade)

\* "final_text": results[-1].processed_text if results else request.text, of the
\* responses of auto_review and case_workflow
final_text == IF results # <<>> THEN results[Len(results)].processed_text ELSE winput

\* C36: in every successful auto-review and case-workflow response, final_text is the
\* processed_text of the last returned step, or the request's input text when no
\* step was returned; when no provider served any step of the run, final_text is
\* the input text.
C36_FinalTextIsLastOutput ==
    (wpc = "done" /\ wkind # "none") =>
        /\ results # <<>> => final_text = results[Len(results)].processed_text
        /\ results = <<>> => final_text = winput
        /\ wdown => final_text = winput
====
